---- MODULE Spec2Model ----
(***************************************************************************)
(* Model of the validation-and-routing pipeline of helix.py                *)
(* (ClinicalDataValidator): the processed-file ledger, the filename        *)
(* matcher, the content validator and the two drivers                      *)
(* process_selected_files and validate_selected_files; _generate_guid; and *)
(* the worker threads and status queue of the window                       *)
(* (PAGHClinicalDataManager).                                              *)
(*                                                                         *)
(* A Python str is a sequence of one-character strings; a directory is a   *)
(* function from the names it holds to the files stored under them.        *)
(***************************************************************************)
EXTENDS Integers, Sequences, FiniteSets, TLC

VARIABLES
  download_dir,     \* self.download_dir: path name -> file (the sidecar apart)
  archive_dir,      \* self.archive_dir: path name -> file
  error_dir,        \* self.error_dir: path name -> file (the two logs apart)
  sidecar,          \* processed_files.txt: whether it exists, and its text
  error_log,        \* error_report.log: the entries appended by _log_error
  validators,       \* validator instance -> whether it is alive, and its self.processed_files
  mode,             \* "idle", "process" or "validate": the driver that is running
  cur,              \* the validator instance the running driver belongs to
  files,            \* the driver's argument `files`
  idx,              \* position of the for loop in `files`
  pc,               \* position of the driver inside the loop body
  counts,           \* the driver's counters
  log_base,         \* Len(error_log) when the running driver was started
  h,                \* history of the file the loop reached last
  ever_archived,    \* history: names whose file passed both checks and was moved to the archive
  aborts,           \* number of times the host ended the program during a run
  marked,           \* history: the last direct call of _save_processed_file
  candidate,        \* the argument of a check that is called on its own (a name or a file)
  verdict,          \* whether that check has returned, and what it returned
  archive_filename, \* archive_filename of process_selected_files, once computed for `candidate`
  error_summary,    \* error_summary of process_selected_files, once built from a verdict
  is_processing,    \* PAGHClinicalDataManager.is_processing
  status_queue,     \* PAGHClinicalDataManager.status_queue: the tags of the messages in it
  threads,          \* the worker threads that run, each with the steps it has yet to take
  processor         \* ClinicalDataProcessor: its self.ftp and its self.connected

vars == <<download_dir, archive_dir, error_dir, sidecar, error_log, validators,
          mode, cur, files, idx, pc, counts, log_base, h, ever_archived, aborts, marked, candidate, verdict,
          archive_filename, error_summary, is_processing, status_queue, threads,
          processor>>

\* The variables of the window (PAGHClinicalDataManager).
window == <<is_processing, status_queue, threads>>

-----------------------------------------------------------------------------
(* Bounds of the model *)

MaxFiles == 2

MaxAborts == 1

MaxRows == 2
MaxLongRows == 5
MaxCalls == 3
MaxThreads == 2

-----------------------------------------------------------------------------
(* Strings *)

Min(S) == CHOOSE x \in S : \A y \in S : x <= y

\* The characters the model uses, in code point order.
CodePointOrder ==
  << "\n", "\r", " ", "+", "-", ".",
     "0", "1", "2", "3", "4", "5", "6", "7", "8", "9",
     "A", "B", "C", "D", "E", "F", "G", "H", "I", "J", "K", "L", "M",
     "N", "O", "P", "Q", "R", "S", "T", "U", "V", "W", "X", "Y", "Z", "_",
     "a", "b", "c", "d", "e", "f", "g", "h", "i", "j", "k", "l", "m",
     "n", "o", "p", "q", "r", "s", "t", "u", "v", "w", "x", "y", "z" >>

Ord(c) == Min({i \in 1..Len(CodePointOrder) : CodePointOrder[i] = c})

\* s < t for two Python strings (comparison by code point, then by length).
StrLess(s, t) ==
  LET n    == IF Len(s) < Len(t) THEN Len(s) ELSE Len(t)
      diff == {i \in 1..n : s[i] # t[i]}
  IN  IF diff = {} THEN Len(s) < Len(t)
      ELSE Ord(s[Min(diff)]) < Ord(t[Min(diff)])

RECURSIVE Sorted(_)
\* sorted(S) for a set of strings.
Sorted(S) ==
  IF S = {} THEN <<>>
  ELSE LET m == CHOOSE x \in S : \A y \in S : x = y \/ StrLess(x, y)
       IN  <<m>> \o Sorted(S \ {m})

RECURSIVE Join(_, _)
\* sep.join(parts)
Join(sep, parts) ==
  IF Len(parts) = 0 THEN <<>>
  ELSE IF Len(parts) = 1 THEN parts[1]
  ELSE parts[1] \o sep \o Join(sep, Tail(parts))

Max(S) == CHOOSE x \in S : \A y \in S : x >= y

\* The positions at which a line of text ends: at "\n", and at an "\r" that no "\n" follows.
LineEnds(text) ==
  {i \in 1..Len(text) :
     \/ text[i] = "\n"
     \/ text[i] = "\r" /\ ~(i < Len(text) /\ text[i + 1] = "\n")}

\* text.splitlines(): the lines without their line breaks; text after the last line
\* break is a line of its own if it is not empty.
SplitLines(text) ==
  LET ends     == LineEnds(text)
      nth(k)   == CHOOSE e \in ends : Cardinality({x \in ends : x <= e}) = k
      first(e) == 1 + Max({x \in ends : x < e} \cup {0})
      last(e)  == IF text[e] = "\n" /\ e > 1 /\ text[e - 1] = "\r" THEN e - 2 ELSE e - 1
      whole    == [k \in 1..Cardinality(ends) |-> SubSeq(text, first(nth(k)), last(nth(k)))]
      rest     == Max(ends \cup {0}) + 1
  IN  IF rest <= Len(text) THEN Append(whole, SubSeq(text, rest, Len(text))) ELSE whole

Range(f) == {f[i] : i \in DOMAIN f}

\* s.startswith(p) at position i (1-based)
HasAt(s, i, p) == i + Len(p) - 1 <= Len(s) /\ SubSeq(s, i, i + Len(p) - 1) = p

RECURSIVE ReplaceFrom(_, _, _, _)
ReplaceFrom(s, i, old, new) ==
  IF i > Len(s) THEN <<>>
  ELSE IF HasAt(s, i, old) THEN new \o ReplaceFrom(s, i + Len(old), old, new)
  ELSE <<s[i]>> \o ReplaceFrom(s, i + 1, old, new)

\* s.replace(old, new) for a non-empty old
Replace(s, old, new) == ReplaceFrom(s, 1, old, new)

-----------------------------------------------------------------------------
(* File names *)

Digits == {"0", "1", "2", "3", "4", "5", "6", "7", "8", "9"}

LowerCase == << "a", "b", "c", "d", "e", "f", "g", "h", "i", "j", "k", "l", "m",
                "n", "o", "p", "q", "r", "s", "t", "u", "v", "w", "x", "y", "z" >>

UpperCase == << "A", "B", "C", "D", "E", "F", "G", "H", "I", "J", "K", "L", "M",
                "N", "O", "P", "Q", "R", "S", "T", "U", "V", "W", "X", "Y", "Z" >>

\* re.IGNORECASE: characters are compared after case folding.
Fold(c) ==
  IF \E i \in 1..26 : LowerCase[i] = c
  THEN UpperCase[CHOOSE i \in 1..26 : LowerCase[i] = c]
  ELSE c

PatternPrefix == <<"C", "L", "I", "N", "I", "C", "A", "L", "D", "A", "T", "A", "_">>

PatternSuffix == <<".", "C", "S", "V">>

PatternDigits == 14

\* The pattern matched against the whole of t.
FullMatch(t) ==
  /\ Len(t) = Len(PatternPrefix) + PatternDigits + Len(PatternSuffix)
  /\ \A i \in 1..Len(PatternPrefix) : Fold(t[i]) = PatternPrefix[i]
  /\ \A i \in 1..PatternDigits : t[Len(PatternPrefix) + i] \in Digits
  /\ \A i \in 1..Len(PatternSuffix) :
        Fold(t[Len(PatternPrefix) + PatternDigits + i]) = PatternSuffix[i]

\* _validate_filename_pattern: re.match(r'^CLINICALDATA_\d{14}\.CSV$', filename,
\* re.IGNORECASE) is not None.  `$` matches at the end of the string and also
\* just before a line break that ends the string.
ValidateFilenamePattern(filename) ==
  \/ FullMatch(filename)
  \/ /\ Len(filename) > 0
     /\ filename[Len(filename)] = "\n"
     /\ FullMatch(SubSeq(filename, 1, Len(filename) - 1))

Stamp == <<"2", "0", "2", "4", "0", "1", "0", "1", "1", "2", "0", "0", "0", "0">>

FileUpper == PatternPrefix \o Stamp \o <<".", "C", "S", "V">>

FileLower == PatternPrefix \o Stamp \o <<".", "c", "s", "v">>

FileBadName == <<"D", "A", "T", "A", "_", "1", ".", "c", "s", "v">>

\* The names the FTP listing offers (get_file_list keeps names ending in .csv, any case).
Names == {FileUpper, FileBadName}

TempPrefix == <<"t", "e", "m", "p", "_", "v", "a", "l", "i", "d", "a", "t", "e", "_">>

\* temp_path = self.download_dir / f"temp_validate_{filename}"
TempPath(filename) == TempPrefix \o filename

\* datetime.now().strftime("%Y%m%d") at the time of archiving
Dates == { <<"2", "0", "2", "4", "0", "7", "0", "1">> }

\* base_name = filename.replace('.CSV', '').replace('.csv', '');
\* archive_filename = f"{base_name}_{current_date}.CSV"
ArchiveFilename(filename, current_date) ==
  Replace(Replace(filename, <<".", "C", "S", "V">>, <<>>), <<".", "c", "s", "v">>, <<>>)
    \o <<"_">> \o current_date \o <<".", "C", "S", "V">>

-----------------------------------------------------------------------------
(* Content validation (_validate_csv_content)                              *)
(*                                                                         *)
(* A file is modelled by what csv.reader yields for it: a sequence of rows,*)
(* each a sequence of strings, and the point at which reading it fails.    *)

\* expected_fields
ExpectedFields ==
  << <<"P", "a", "t", "i", "e", "n", "t", "I", "D">>, <<"T", "r", "i", "a", "l", "C", "o", "d", "e">>, <<"D", "r", "u", "g", "C", "o", "d", "e">>,
     <<"D", "o", "s", "a", "g", "e", "_", "m", "g">>, <<"S", "t", "a", "r", "t", "D", "a", "t", "e">>, <<"E", "n", "d", "D", "a", "t", "e">>,
     <<"O", "u", "t", "c", "o", "m", "e">>, <<"S", "i", "d", "e", "E", "f", "f", "e", "c", "t", "s">>, <<"A", "n", "a", "l", "y", "s", "t">> >>

FieldCount == 9

Whitespace == {" ", "\n", "\r"}

RECURSIVE LStrip(_)
LStrip(s) == IF Len(s) > 0 /\ s[1] \in Whitespace THEN LStrip(Tail(s)) ELSE s

RECURSIVE RStrip(_)
RStrip(s) ==
  IF Len(s) > 0 /\ s[Len(s)] \in Whitespace THEN RStrip(SubSeq(s, 1, Len(s) - 1)) ELSE s

DigitValue(c) == Ord(c) - Ord("0")

RECURSIVE DigitsValue(_, _)
\* value of a digit string that may hold underscores, most significant digit first
DigitsValue(s, acc) ==
  IF Len(s) = 0 THEN acc
  ELSE IF s[1] = "_" THEN DigitsValue(Tail(s), acc)
  ELSE DigitsValue(Tail(s), 10 * acc + DigitValue(s[1]))

\* Digits, single underscores allowed between two digits.
IsIntLiteral(s) ==
  /\ Len(s) > 0
  /\ s[1] \in Digits /\ s[Len(s)] \in Digits
  /\ \A i \in 1..Len(s) : s[i] \in Digits \/ s[i] = "_"
  /\ \A i \in 1..(Len(s) - 1) : ~(s[i] = "_" /\ s[i + 1] = "_")

\* int(dosage): surrounding whitespace is ignored, one sign is allowed.
\* ok = FALSE stands for ValueError.
ParseInt(text) ==
  LET s    == RStrip(LStrip(text))
      neg  == Len(s) > 0 /\ s[1] = "-"
      body == IF Len(s) > 0 /\ s[1] \in {"+", "-"} THEN Tail(s) ELSE s
  IN  IF IsIntLiteral(body)
      THEN [ok |-> TRUE, val |-> IF neg THEN 0 - DigitsValue(body, 0) ELSE DigitsValue(body, 0)]
      ELSE [ok |-> FALSE, val |-> 0]

IsLeap(y) == (y % 4 = 0 /\ y % 100 # 0) \/ y % 400 = 0

DaysInMonth(y, m) ==
  IF m = 2 THEN (IF IsLeap(y) THEN 29 ELSE 28)
  ELSE IF m \in {4, 6, 9, 11} THEN 30 ELSE 31

\* The longest prefix of s at position i that the directive's pattern accepts:
\* %m is 1[0-2]|0[1-9]|[1-9]; %d is 3[01]|[12]\d|0[1-9]|[1-9]| [1-9].
\* The result is the number of characters taken (0: no match).
MonthWidth(s, i) ==
  IF i + 1 <= Len(s) /\ s[i] = "1" /\ s[i + 1] \in {"0", "1", "2"} THEN 2
  ELSE IF i + 1 <= Len(s) /\ s[i] = "0" /\ s[i + 1] \in (Digits \ {"0"}) THEN 2
  ELSE IF i <= Len(s) /\ s[i] \in (Digits \ {"0"}) THEN 1
  ELSE 0

DayWidth(s, i) ==
  IF i + 1 <= Len(s) /\ s[i] = "3" /\ s[i + 1] \in {"0", "1"} THEN 2
  ELSE IF i + 1 <= Len(s) /\ s[i] \in {"1", "2"} /\ s[i + 1] \in Digits THEN 2
  ELSE IF i + 1 <= Len(s) /\ s[i] = "0" /\ s[i + 1] \in (Digits \ {"0"}) THEN 2
  ELSE IF i <= Len(s) /\ s[i] \in (Digits \ {"0"}) THEN 1
  ELSE IF i + 1 <= Len(s) /\ s[i] = " " /\ s[i + 1] \in (Digits \ {"0"}) THEN 2
  ELSE 0

\* datetime.strptime(text, "%Y-%m-%d"); ok = FALSE stands for ValueError.
\* day is the number of the date in a proleptic count that orders dates.
ParseDate(text) ==
  LET bad == [ok |-> FALSE, y |-> 0, m |-> 0, d |-> 0]
  IN  IF ~(Len(text) >= 5 /\ (\A i \in 1..4 : text[i] \in Digits) /\ text[5] = "-")
      THEN bad
      ELSE
        LET mw == MonthWidth(text, 6)
        IN  IF mw = 0 \/ ~(6 + mw <= Len(text) /\ text[6 + mw] = "-") THEN bad
            ELSE
              LET dw == DayWidth(text, 7 + mw)
                  y  == DigitsValue(SubSeq(text, 1, 4), 0)
                  m  == DigitsValue(SubSeq(text, 6, 5 + mw), 0)
                  dt == SubSeq(text, 7 + mw, 6 + mw + dw)
                  d  == DigitsValue(IF dw > 0 /\ dt[1] = " " THEN Tail(dt) ELSE dt, 0)
              IN  IF dw = 0 \/ 6 + mw + dw # Len(text) THEN bad   \* unconverted data remains
                  ELSE IF y < 1 \/ d > DaysInMonth(y, m) THEN bad  \* no such calendar day
                  ELSE [ok |-> TRUE, y |-> y, m |-> m, d |-> d]

\* end_dt < start_dt
DateLess(a, b) ==
  \/ a.y < b.y
  \/ a.y = b.y /\ a.m < b.m
  \/ a.y = b.y /\ a.m = b.m /\ a.d < b.d

OutcomeImproved == <<"I", "m", "p", "r", "o", "v", "e", "d">>

OutcomeNoChange == <<"N", "o", " ", "C", "h", "a", "n", "g", "e">>

OutcomeWorsened == <<"W", "o", "r", "s", "e", "n", "e", "d">>

\* valid_outcomes
ValidOutcomes == {OutcomeImproved, OutcomeNoChange, OutcomeWorsened}

\* record_key = f"{patient_id}_{trial_code}_{drug_code}_{start_date}"
RecordKey(row) == Join(<<"_">>, <<row[1], row[2], row[3], row[5]>>)

\* A variant of the date check that judges the two dates one by one and goes on to
\* compare them when only the end date is unreadable.
RecordErrors_DatesOneByOne(row, seen_records) ==
  LET dosage   == ParseInt(row[4])
      start_dt == ParseDate(row[5])
      end_dt   == ParseDate(row[6])
  IN  (IF \E i \in 1..FieldCount : row[i] = <<>>
         THEN << <<"Missing required fields">> >> ELSE <<>>)
      \o (IF ~dosage.ok THEN << <<"Non-numeric dosage", row[4]>> >>
          ELSE IF dosage.val <= 0
               THEN << <<"Dosage must be positive integer, got", row[4]>> >>
          ELSE <<>>)
      \o (IF ~start_dt.ok THEN << <<"Invalid date format (expected YYYY-MM-DD)">> >>
          ELSE <<>>)
      \o (IF ~end_dt.ok THEN << <<"Invalid date format (expected YYYY-MM-DD)">> >>
          ELSE <<>>)
      \o (IF start_dt.ok /\ DateLess(end_dt, start_dt)
            THEN << <<"EndDate before StartDate", row[6], row[5]>> >>
          ELSE <<>>)
      \o (IF row[7] \notin ValidOutcomes
            THEN << <<"Invalid outcome", row[7]>> >> ELSE <<>>)
      \o (IF RecordKey(row) \in seen_records
            THEN << <<"Duplicate record">> >> ELSE <<>>)

\* A variant that gives a row with an empty field that message alone.
RecordErrors_MissingOnly(row, seen_records) ==
  LET dosage   == ParseInt(row[4])
      start_dt == ParseDate(row[5])
      end_dt   == ParseDate(row[6])
  IN  IF \E i \in 1..FieldCount : row[i] = <<>>
      THEN << <<"Missing required fields">> >>
      ELSE
        (IF ~dosage.ok THEN << <<"Non-numeric dosage", row[4]>> >>
         ELSE IF dosage.val <= 0
              THEN << <<"Dosage must be positive integer, got", row[4]>> >>
         ELSE <<>>)
        \o (IF ~start_dt.ok \/ ~end_dt.ok
              THEN << <<"Invalid date format (expected YYYY-MM-DD)">> >>
            ELSE IF DateLess(end_dt, start_dt)
                 THEN << <<"EndDate before StartDate", row[6], row[5]>> >>
            ELSE <<>>)
        \o (IF row[7] \notin ValidOutcomes
              THEN << <<"Invalid outcome", row[7]>> >> ELSE <<>>)
        \o (IF RecordKey(row) \in seen_records
              THEN << <<"Duplicate record">> >> ELSE <<>>)

\* The messages one 9-field row collects in record_errors, in the order of the code.
RecordErrors(row, seen_records) ==
  LET dosage   == ParseInt(row[4])
      start_dt == ParseDate(row[5])
      end_dt   == ParseDate(row[6])
  IN  (IF \E i \in 1..FieldCount : row[i] = <<>>
         THEN << <<"Missing required fields">> >> ELSE <<>>)
      \o (IF ~dosage.ok THEN << <<"Non-numeric dosage", row[4]>> >>
          ELSE IF dosage.val <= 0
               THEN << <<"Dosage must be positive integer, got", row[4]>> >>
          ELSE <<>>)
      \o (IF ~start_dt.ok \/ ~end_dt.ok
            THEN << <<"Invalid date format (expected YYYY-MM-DD)">> >>
          ELSE IF DateLess(end_dt, start_dt)
               THEN << <<"EndDate before StartDate", row[6], row[5]>> >>
          ELSE <<>>)
      \o (IF row[7] \notin ValidOutcomes
            THEN << <<"Invalid outcome", row[7]>> >> ELSE <<>>)
      \o (IF RecordKey(row) \in seen_records
            THEN << <<"Duplicate record">> >> ELSE <<>>)

RECURSIVE ScanRows_ShortRowKeyed(_, _, _, _, _)
\* A variant of the row loop that notes the key of a row before it counts its fields.
ScanRows_ShortRowKeyed(data, i, seen_records, errors, valid_records) ==
  IF data.fault # "none" /\ data.fault_row = i
  THEN [is_valid |-> FALSE,
        errors |-> << [row |-> 0, msgs |-> << <<data.fault>> >>] >>,
        record_count |-> 0]
  ELSE IF i > Len(data.rows)
  THEN [is_valid |-> errors = <<>>, errors |-> errors, record_count |-> valid_records]
  ELSE
    LET row == data.rows[i]
    IN  IF Len(row) # FieldCount
        THEN ScanRows_ShortRowKeyed(
               data, i + 1,
               IF Len(row) >= 5 THEN seen_records \cup {RecordKey(row)} ELSE seen_records,
               Append(errors, [row |-> i,
                               msgs |-> << <<"Expected 9 fields, got", Len(row)>> >>]),
               valid_records)
        ELSE
          LET record_errors == RecordErrors(row, seen_records)
          IN  ScanRows_ShortRowKeyed(
                data, i + 1, seen_records \cup {RecordKey(row)},
                IF record_errors # <<>>
                  THEN Append(errors, [row |-> i, msgs |-> record_errors])
                  ELSE errors,
                IF record_errors = <<>> THEN valid_records + 1 ELSE valid_records)

RECURSIVE ScanRows_KeyOnlyIfValid(_, _, _, _, _)
\* A variant of the row loop that notes the key of a row only if the row has no violation.
ScanRows_KeyOnlyIfValid(data, i, seen_records, errors, valid_records) ==
  IF data.fault # "none" /\ data.fault_row = i
  THEN [is_valid |-> FALSE,
        errors |-> << [row |-> 0, msgs |-> << <<data.fault>> >>] >>,
        record_count |-> 0]
  ELSE IF i > Len(data.rows)
  THEN [is_valid |-> errors = <<>>, errors |-> errors, record_count |-> valid_records]
  ELSE
    LET row == data.rows[i]
    IN  IF Len(row) # FieldCount
        THEN ScanRows_KeyOnlyIfValid(
               data, i + 1, seen_records,
               Append(errors, [row |-> i,
                               msgs |-> << <<"Expected 9 fields, got", Len(row)>> >>]),
               valid_records)
        ELSE
          LET record_errors == RecordErrors(row, seen_records)
          IN  ScanRows_KeyOnlyIfValid(
                data, i + 1,
                IF record_errors = <<>> THEN seen_records \cup {RecordKey(row)}
                                        ELSE seen_records,
                IF record_errors # <<>>
                  THEN Append(errors, [row |-> i, msgs |-> record_errors])
                  ELSE errors,
                IF record_errors = <<>> THEN valid_records + 1 ELSE valid_records)

RECURSIVE ScanRows_CountsFromOne(_, _, _, _, _)
\* A variant of the row loop that numbers the first data row 1.
ScanRows_CountsFromOne(data, i, seen_records, errors, valid_records) ==
  IF data.fault # "none" /\ data.fault_row = i
  THEN [is_valid |-> FALSE,
        errors |-> << [row |-> 0, msgs |-> << <<data.fault>> >>] >>,
        record_count |-> 0]
  ELSE IF i > Len(data.rows)
  THEN [is_valid |-> errors = <<>>, errors |-> errors, record_count |-> valid_records]
  ELSE
    LET row == data.rows[i]
    IN  IF Len(row) # FieldCount
        THEN ScanRows_CountsFromOne(data, i + 1, seen_records,
                      Append(errors, [row |-> i - 1,
                                      msgs |-> << <<"Expected 9 fields, got", Len(row)>> >>]),
                      valid_records)
        ELSE
          LET record_errors == RecordErrors(row, seen_records)
          IN  ScanRows_CountsFromOne(data, i + 1, seen_records \cup {RecordKey(row)},
                       IF record_errors # <<>>
                         THEN Append(errors, [row |-> i - 1, msgs |-> record_errors])
                         ELSE errors,
                       IF record_errors = <<>> THEN valid_records + 1 ELSE valid_records)

RECURSIVE ScanRows_CountsFlagged(_, _, _, _, _)
\* A variant of the row loop that counts every 9-field row as a record.
ScanRows_CountsFlagged(data, i, seen_records, errors, valid_records) ==
  IF data.fault # "none" /\ data.fault_row = i
  THEN [is_valid |-> FALSE,
        errors |-> << [row |-> 0, msgs |-> << <<data.fault>> >>] >>,
        record_count |-> 0]
  ELSE IF i > Len(data.rows)
  THEN [is_valid |-> errors = <<>>, errors |-> errors, record_count |-> valid_records]
  ELSE
    LET row == data.rows[i]
    IN  IF Len(row) # FieldCount
        THEN ScanRows_CountsFlagged(data, i + 1, seen_records,
                      Append(errors, [row |-> i,
                                      msgs |-> << <<"Expected 9 fields, got", Len(row)>> >>]),
                      valid_records)
        ELSE
          LET record_errors == RecordErrors(row, seen_records)
          IN  ScanRows_CountsFlagged(data, i + 1, seen_records \cup {RecordKey(row)},
                       IF record_errors # <<>>
                         THEN Append(errors, [row |-> i, msgs |-> record_errors])
                         ELSE errors,
                       valid_records + 1)

RECURSIVE ScanRows(_, _, _, _, _)
\* The for loop over the data rows: rows[i] is the row row_num = i is counted for.
\* A read fault met at row data.fault_row ends the scan with the except clause's verdict.
ScanRows(data, i, seen_records, errors, valid_records) ==
  IF data.fault # "none" /\ data.fault_row = i
  THEN [is_valid |-> FALSE,
        errors |-> << [row |-> 0, msgs |-> << <<data.fault>> >>] >>,
        record_count |-> 0]
  ELSE IF i > Len(data.rows)
  THEN [is_valid |-> errors = <<>>, errors |-> errors, record_count |-> valid_records]
  ELSE
    LET row == data.rows[i]
    IN  IF Len(row) # FieldCount
        THEN ScanRows(data, i + 1, seen_records,
                      Append(errors, [row |-> i,
                                      msgs |-> << <<"Expected 9 fields, got", Len(row)>> >>]),
                      valid_records)
        ELSE
          LET record_errors == RecordErrors(row, seen_records)
          IN  ScanRows(data, i + 1, seen_records \cup {RecordKey(row)},
                       IF record_errors # <<>>
                         THEN Append(errors, [row |-> i, msgs |-> record_errors])
                         ELSE errors,
                       IF record_errors = <<>> THEN valid_records + 1 ELSE valid_records)

\* The verdict of the two except clauses and of the two early returns.
FileVerdict(message) ==
  [is_valid |-> FALSE, errors |-> << [row |-> 0, msgs |-> << <<message>> >>] >>,
   record_count |-> 0]

\* A variant whose except clauses return no message.
ValidateCsvContent_SilentFault(data) ==
  IF data.fault # "none" /\ data.fault_row <= 1
  THEN [is_valid |-> FALSE, errors |-> <<>>, record_count |-> 0]
  ELSE IF Len(data.rows) = 0 THEN FileVerdict("File is empty")
  ELSE IF data.rows[1] # ExpectedFields THEN FileVerdict("Invalid header")
  ELSE ScanRows(data, 2, {}, <<>>, 0)

\* A variant whose except clauses report the records accepted before the fault.
ValidateCsvContent_FaultKeepsCount(data) ==
  IF data.fault # "none" /\ data.fault_row <= 1 THEN FileVerdict(data.fault)
  ELSE IF Len(data.rows) = 0 THEN FileVerdict("File is empty")
  ELSE IF data.rows[1] # ExpectedFields THEN FileVerdict("Invalid header")
  ELSE IF data.fault # "none"
  THEN [FileVerdict(data.fault) EXCEPT
          !.record_count =
             ScanRows([rows |-> SubSeq(data.rows, 1, data.fault_row - 1),
                       fault |-> "none", fault_row |-> 0], 2, {}, <<>>, 0).record_count]
  ELSE ScanRows(data, 2, {}, <<>>, 0)

\* A variant that notes a wrong header and scans the rows all the same.
ValidateCsvContent_HeaderThenScan(data) ==
  IF data.fault # "none" /\ data.fault_row <= 1 THEN FileVerdict(data.fault)
  ELSE IF Len(data.rows) = 0 THEN FileVerdict("File is empty")
  ELSE IF data.rows[1] # ExpectedFields
  THEN ScanRows(data, 2, {}, FileVerdict("Invalid header").errors, 0)
  ELSE ScanRows(data, 2, {}, <<>>, 0)

\* A variant that takes a file without data rows for an empty file.
ValidateCsvContent_NeedsRecord(data) ==
  IF data.fault # "none" /\ data.fault_row <= 1 THEN FileVerdict(data.fault)
  ELSE IF Len(data.rows) <= 1 /\ data.fault = "none" THEN FileVerdict("File is empty")
  ELSE IF Len(data.rows) = 0 THEN FileVerdict("File is empty")
  ELSE IF data.rows[1] # ExpectedFields THEN FileVerdict("Invalid header")
  ELSE ScanRows(data, 2, {}, <<>>, 0)

\* A variant that compares the header before it looks whether there is one.
ValidateCsvContent_EmptyAsHeader(data) ==
  IF data.fault # "none" /\ data.fault_row <= 1 THEN FileVerdict(data.fault)
  ELSE IF Len(data.rows) = 0 \/ data.rows[1] # ExpectedFields
  THEN FileVerdict("Invalid header")
  ELSE ScanRows(data, 2, {}, <<>>, 0)

\* A seen-set that holds the keys of the records of the files in the archive.
SeenRecordsAtStart_KeptFromArchive ==
  UNION { {RecordKey(archive_dir[p].data.rows[i]) :
             i \in {k \in 2..Len(archive_dir[p].data.rows) :
                      Len(archive_dir[p].data.rows[k]) = FieldCount}} :
          p \in DOMAIN archive_dir }

\* seen_records = set(), at the start of every call of _validate_csv_content
SeenRecordsAtStart == {}

\* _validate_csv_content(file_path): (is_valid, errors, len(valid_records))
ValidateCsvContent(data) ==
  IF data.fault # "none" /\ data.fault_row <= 1
  THEN [is_valid |-> FALSE,
        errors |-> << [row |-> 0, msgs |-> << <<data.fault>> >>] >>,
        record_count |-> 0]
  ELSE IF Len(data.rows) = 0
  THEN [is_valid |-> FALSE,
        errors |-> << [row |-> 0, msgs |-> << <<"File is empty">> >>] >>,
        record_count |-> 0]
  ELSE IF data.rows[1] # ExpectedFields
  THEN [is_valid |-> FALSE,
        errors |-> << [row |-> 0, msgs |-> << <<"Invalid header">> >>] >>,
        record_count |-> 0]
  ELSE ScanRows(data, 2, SeenRecordsAtStart, <<>>, 0)

RowA ==
  << <<"P", "T", "0", "0", "1">>, <<"T", "R", "I", "A", "L", "0", "0", "1">>, <<"D", "R", "U", "G", "0", "0", "1">>, <<"1", "0", "0">>, <<"2", "0", "2", "4", "-", "0", "1", "-", "0", "1">>, <<"2", "0", "2", "4", "-", "0", "6", "-", "0", "1">>,
     OutcomeImproved, <<"N", "o", "n", "e">>, <<"A", "n", "a", "l", "y", "s", "t", "1">> >>

RowZeroDosage ==
  << <<"P", "T", "0", "0", "2">>, <<"T", "R", "I", "A", "L", "0", "0", "1">>, <<"D", "R", "U", "G", "0", "0", "1">>, <<"0">>, <<"2", "0", "2", "4", "-", "0", "1", "-", "0", "1">>, <<"2", "0", "2", "4", "-", "0", "6", "-", "0", "1">>,
     OutcomeImproved, <<"N", "o", "n", "e">>, <<"A", "n", "a", "l", "y", "s", "t", "1">> >>

\* A file with the header and one acceptable record.
GoodData == [rows |-> <<ExpectedFields, RowA>>, fault |-> "none", fault_row |-> 0]

\* A file with the header and one record whose dosage is 0.
BadData == [rows |-> <<ExpectedFields, RowZeroDosage>>, fault |-> "none", fault_row |-> 0]

\* What open(path, 'wb') leaves before any byte is written.
EmptyData == [rows |-> <<>>, fault |-> "none", fault_row |-> 0]

\* The contents the server may deliver under a name.  The content of a file whose
\* name is rejected is never read, so one content stands for all of them.
Contents(filename) ==
  IF ValidateFilenamePattern(filename) THEN {GoodData, BadData} ELSE {GoodData}

-----------------------------------------------------------------------------
(* Directories and the ledger *)

EmptyDir == [p \in {} |-> EmptyData]

\* The directory after a file was written or moved to `path` (a file there is replaced).
Put(dir, path, file) ==
  [p \in (DOMAIN dir) \cup {path} |-> IF p = path THEN file ELSE dir[p]]

\* The directory after `path` was renamed away or unlinked.
Remove(dir, path) == [p \in (DOMAIN dir) \ {path} |-> dir[p]]

\* The validator instances that may exist side by side.
Inst == {"validator", "validator2"}

\* PAGHClinicalDataManager.validator: each click on Validate or Process stores a
\* new ClinicalDataValidator there and runs the driver on it.
GuiValidator == "validator"

\* The names bound as methods of class ClinicalDataValidator.  The def of _log_error
\* is indented into the body of _log_api_failure, so the class has no such attribute.
ValidatorMethods ==
  {"__init__", "_load_processed_files", "_save_processed_file", "_generate_guid",
   "_log_api_failure", "_validate_filename_pattern", "_validate_csv_content",
   "validate_selected_files", "process_selected_files"}

\* The set _load_processed_files returns for a sidecar file sc:
\* set(read_text().splitlines()) if it exists, else set()
LedgerOf(sc) == IF sc.exists THEN Range(SplitLines(sc.text)) ELSE {}

\* self._load_processed_files()
LoadProcessedFiles == LedgerOf(sidecar)

\* The text _save_processed_file writes: "\n".join(sorted(self.processed_files))
LedgerText(names) == Join(<<"\n">>, Sorted(names))

\* How Path.write_text ends: it opens the file for writing, which truncates it, and
\* writes the text; either step may raise OSError.
WriteOutcomes == {"written", "open_raises", "write_raises"}

\* _save_processed_file(filename) of instance i: self.processed_files.add(filename),
\* then processed_files_log.write_text("\n".join(sorted(self.processed_files)))
SaveProcessedFile(i, filename, outcome) ==
  LET names == validators[i].processed_files \cup {filename}
  IN  /\ validators' = [validators EXCEPT ![i].processed_files = names]
      /\ sidecar' = CASE outcome = "written" -> [exists |-> TRUE, text |-> LedgerText(names)]
                      [] outcome = "open_raises" -> sidecar
                      [] outcome = "write_raises" -> [exists |-> TRUE, text |-> <<>>]

\* A variant that looks the name up in the sidecar file and not in the instance's set.
InLedger_Sidecar(i, filename) == filename \in LoadProcessedFiles

\* filename in self.processed_files
InLedger(i, filename) == filename \in validators[i].processed_files

\* A variant that leaves out the filename check.
Route_NoNameCheck(filename, data) ==
  IF ValidateCsvContent(data).is_valid THEN "archive" ELSE "reject_content"

\* The branch process_selected_files takes for a downloaded file.
Route(filename, data) ==
  IF ~ValidateFilenamePattern(filename) THEN "reject_name"
  ELSE IF ValidateCsvContent(data).is_valid THEN "archive"
  ELSE "reject_content"

\* A summary that is made of the last three violations.
ErrorSummary_LastThree(errors) ==
  [shown |-> SubSeq(errors, IF Len(errors) < 3 THEN 1 ELSE Len(errors) - 2, Len(errors)),
   more  |-> IF Len(errors) > 3 THEN Len(errors) - 3 ELSE 0]

\* error_summary = " | ".join(errors[:3]) (+ f" ... and {len(errors) - 3} more"):
\* `shown` are the strings that are joined, in the order they are joined in, and
\* `more` is the number the tail names (0: the summary has no tail).
ErrorSummary(errors) ==
  [shown |-> SubSeq(errors, 1, IF Len(errors) < 3 THEN Len(errors) ELSE 3),
   more  |-> IF Len(errors) > 3 THEN Len(errors) - 3 ELSE 0]

\* The names helix.py binds at module level: its imports, its classes and main.
ModuleNames ==
  { "tk", "ttk", "messagebox", "scrolledtext", "filedialog", "ftplib", "csv", "os", "re",
    "uuid", "datetime", "Path", "threading", "queue", "sys", "requests", "time",
    "ClinicalDataProcessor", "ClinicalDataValidator", "PAGHClinicalDataManager", "main" }

\* The names _generate_guid has bound when it reaches its for statement.
GuidLocals == {"self", "api_url"}

\* What one call of requests.get(api_url, timeout=5) may come to: a response of status
\* 200 with a list of GUIDs, a response that is not that, or one of the exceptions
\* the function tells apart.
ApiOutcomes == {"ok", "invalid_response", "timeout", "connection_error", "exception"}

\* What the API would answer to the successive calls, were they made.
ApiScripts == UNION {[1..n -> ApiOutcomes] : n \in 1..MaxCalls}

\* Reading a name inside _generate_guid: a local, else a name of the module (no
\* builtin has the names looked up here), else NameError.
LoadName(name) ==
  IF name \in GuidLocals \cup ModuleNames THEN "bound" ELSE "NameError"

\* No identifier: the call did not return.
NoGuid == [origin |-> "none", call |-> 0]

\* self._generate_guid() against an API that answers as `api` says.  The function
\* binds api_url and evaluates range(max_retries): max_retries is no local of the
\* function and no name of the module (nor a builtin), so the lookup raises NameError
\* before the loop is entered and before requests.get is called.
GenerateGuid(api) ==
  CASE LoadName("max_retries") = "NameError" ->
         [raised |-> "NameError", guid |-> NoGuid, calls |-> 0]

\* The text of an identifier _generate_guid returns: guids[0] of the API and
\* str(uuid.uuid4()) are both the 36 characters of a UUID.
GuidText(guid) ==
  <<"1", "2", "3", "4", "5", "6", "7", "8", "-", "1", "2", "3", "4", "-", "1", "2", "3",
    "4", "-", "1", "2", "3", "4", "-", "1", "2", "3", "4", "5", "6", "7", "8", "9", "0", "1", "2">>

\* The prefix _log_error looks for.
ApiPrefix == <<"A", "P", "I", ":">>

\* _log_error: is_fallback = not guid.startswith("API:") decides guid_source.
LogSource(text) == IF HasAt(text, 1, ApiPrefix) THEN "API" ELSE "Local Fallback"

\* _log_error: guid = guid[4:] when the prefix is there.
LogGuid(text) == IF HasAt(text, 1, ApiPrefix) THEN SubSeq(text, 5, Len(text)) ELSE text

ZeroCounts == [processed_count |-> 0, error_count |-> 0, valid_count |-> 0, invalid_count |-> 0]

NoHistory ==
  [name |-> <<>>, skipped |-> FALSE, moved |-> FALSE, rejected |-> "no",
   move_failed |-> FALSE, before |-> ZeroCounts, log_before |-> 0]

\* No direct call of _save_processed_file was made yet.
NoCall == [inst |-> "none", name |-> <<>>, outcome |-> "none", again |-> FALSE, same |-> FALSE]

\* The non-empty argument lists of at most MaxFiles names.
FileLists == UNION {[1..n -> Names] : n \in 1..MaxFiles}

-----------------------------------------------------------------------------
(* The state machine *)

\* ClinicalDataProcessor.__init__: self.ftp = None, self.connected = False.  self.ftp
\* is "None", or an FTP object whose control connection is "open" or "closed".
NewProcessor == [ftp |-> "None", connected |-> FALSE]

\* The directories, logs and objects before anything has run.
InitState ==
  /\ download_dir = EmptyDir
  /\ archive_dir = EmptyDir
  /\ error_dir = EmptyDir
  /\ sidecar = [exists |-> FALSE, text |-> <<>>]
  /\ error_log = <<>>
  /\ validators = [i \in Inst |-> [live |-> FALSE, processed_files |-> {}]]
  /\ mode = "idle"
  /\ cur = "validator"
  /\ files = <<>>
  /\ idx = 1
  /\ pc = "idle"
  /\ counts = ZeroCounts
  /\ log_base = 0
  /\ h = NoHistory
  /\ ever_archived = {}
  /\ aborts = 0
  /\ marked = NoCall
  /\ archive_filename = <<>>
  /\ error_summary = [done |-> FALSE, value |-> ErrorSummary(<<>>)]
  /\ is_processing = FALSE
  /\ status_queue = <<>>
  /\ threads = <<>>
  /\ processor = NewProcessor

\* No check was called on its own.
NoVerdict == [done |-> FALSE, value |-> FALSE]

Init ==
  /\ InitState
  /\ candidate = <<>>
  /\ verdict = NoVerdict

\* ClinicalDataValidator(download_dir, archive_dir, error_dir): __init__ loads the ledger.
NewValidator(i) ==
  /\ mode = "idle"
  /\ validators' = [validators EXCEPT ![i] =
                      [live |-> TRUE, processed_files |-> LoadProcessedFiles]]
  /\ UNCHANGED <<download_dir, archive_dir, error_dir, sidecar, error_log, mode, cur,
                 files, idx, pc, counts, log_base, h, ever_archived, aborts, marked, candidate, verdict,
                 archive_filename, error_summary, window, processor>>

StartRun(i, fs, m) ==
  /\ mode = "idle"
  /\ validators[i].live
  /\ mode' = m
  /\ cur' = i
  /\ files' = fs
  /\ idx' = 1
  /\ pc' = "loop"
  /\ counts' = ZeroCounts
  /\ log_base' = Len(error_log)
  /\ h' = NoHistory
  /\ UNCHANGED <<download_dir, archive_dir, error_dir, sidecar, error_log, validators,
                 ever_archived, aborts, marked, candidate, verdict,
                 archive_filename, error_summary, window, processor>>

\* validator.process_selected_files(ftp, files, status_queue) is called.
StartProcess(i, fs) == StartRun(i, fs, "process")

\* validator.validate_selected_files(ftp, files, status_queue) is called.
StartValidate(i, fs) == StartRun(i, fs, "validate")

AtFile(m) == mode = m /\ idx <= Len(files)

Reached(filename, skipped) ==
  [name |-> filename, skipped |-> skipped, moved |-> FALSE, rejected |-> "no",
   move_failed |-> FALSE, before |-> counts, log_before |-> Len(error_log)]

\* The for loop is exhausted: the summary is reported and the driver returns (its locals end).
Finish ==
  /\ mode # "idle" /\ pc = "loop" /\ idx > Len(files)
  /\ mode' = "idle"
  /\ pc' = "idle"
  /\ files' = <<>>
  /\ idx' = 1
  /\ counts' = ZeroCounts
  /\ log_base' = 0
  /\ h' = NoHistory
  /\ UNCHANGED <<download_dir, archive_dir, error_dir, sidecar, error_log, validators,
                 cur, ever_archived, aborts, marked, candidate, verdict,
                 archive_filename, error_summary, window, processor>>

\* process_selected_files: `if filename in self.processed_files: continue`
ProcessSkip ==
  /\ AtFile("process") /\ pc = "loop"
  /\ InLedger(cur, files[idx])
  /\ idx' = idx + 1
  /\ h' = Reached(files[idx], TRUE)
  /\ UNCHANGED <<download_dir, archive_dir, error_dir, sidecar, error_log, validators,
                 mode, cur, files, pc, counts, log_base, ever_archived, aborts, marked, candidate, verdict,
                 archive_filename, error_summary, window, processor>>

\* open(local_path, 'wb'): creates or truncates the file, or raises.
ProcessOpen ==
  /\ AtFile("process") /\ pc = "loop"
  /\ ~InLedger(cur, files[idx])
  /\ h' = Reached(files[idx], FALSE)
  /\ \E ok \in BOOLEAN :
       IF ok
       THEN /\ download_dir' = Put(download_dir, files[idx],
                                   [origin |-> files[idx], data |-> EmptyData])
            /\ pc' = "retr"
       ELSE /\ pc' = "handler"
            /\ UNCHANGED download_dir
  /\ UNCHANGED <<archive_dir, error_dir, sidecar, error_log, validators, mode, cur,
                 files, idx, counts, log_base, ever_archived, aborts, marked, candidate, verdict,
                 archive_filename, error_summary, window, processor>>

\* ftp.retrbinary(f'RETR {filename}', f.write): the server's content arrives, or it raises.
ProcessRetr ==
  /\ AtFile("process") /\ pc = "retr"
  /\ \E ok \in BOOLEAN, data \in Contents(files[idx]) :
       IF ok
       THEN /\ download_dir' = Put(download_dir, files[idx],
                                   [origin |-> files[idx], data |-> data])
            /\ pc' = "route"
       ELSE /\ pc' = "handler"
            /\ UNCHANGED download_dir
  /\ UNCHANGED <<archive_dir, error_dir, sidecar, error_log, validators, mode, cur,
                 files, idx, counts, log_base, h, ever_archived, aborts, marked, candidate, verdict,
                 archive_filename, error_summary, window, processor>>

\* Filename rejected: local_path.rename(error_file), which moves the file or raises.
ProcessRejectName ==
  /\ AtFile("process") /\ pc = "route"
  /\ Route(files[idx], download_dir[files[idx]].data) = "reject_name"
  /\ \E ok \in BOOLEAN :
       IF ok
       THEN /\ error_dir' = Put(error_dir, files[idx], download_dir[files[idx]])
            /\ download_dir' = Remove(download_dir, files[idx])
            /\ h' = [h EXCEPT !.rejected = "name"]
            /\ pc' = "log_name"
       ELSE /\ h' = [h EXCEPT !.move_failed = TRUE]
            /\ pc' = "handler"
            /\ UNCHANGED <<error_dir, download_dir>>
  /\ UNCHANGED <<archive_dir, sidecar, error_log, validators, mode, cur, files, idx,
                 counts, log_base, ever_archived, aborts, marked, candidate, verdict,
                 archive_filename, error_summary, window, processor>>

\* Content rejected: local_path.rename(error_file), which moves the file or raises.
ProcessRejectContent ==
  /\ AtFile("process") /\ pc = "route"
  /\ Route(files[idx], download_dir[files[idx]].data) = "reject_content"
  /\ \E ok \in BOOLEAN :
       IF ok
       THEN /\ error_dir' = Put(error_dir, files[idx], download_dir[files[idx]])
            /\ download_dir' = Remove(download_dir, files[idx])
            /\ h' = [h EXCEPT !.rejected = "content"]
            /\ pc' = "log_content"
       ELSE /\ h' = [h EXCEPT !.move_failed = TRUE]
            /\ pc' = "handler"
            /\ UNCHANGED <<error_dir, download_dir>>
  /\ UNCHANGED <<archive_dir, sidecar, error_log, validators, mode, cur, files, idx,
                 counts, log_base, ever_archived, aborts, marked, candidate, verdict,
                 archive_filename, error_summary, window, processor>>

\* Valid file: local_path.rename(archive_path), which moves the file or raises.
ProcessArchive ==
  /\ AtFile("process") /\ pc = "route"
  /\ Route(files[idx], download_dir[files[idx]].data) = "archive"
  /\ \E ok \in BOOLEAN, current_date \in Dates :
       IF ok
       THEN /\ archive_dir' = Put(archive_dir, ArchiveFilename(files[idx], current_date),
                                  download_dir[files[idx]])
            /\ download_dir' = Remove(download_dir, files[idx])
            /\ h' = [h EXCEPT !.moved = TRUE]
            /\ ever_archived' =
                 IF /\ ValidateFilenamePattern(files[idx])
                    /\ ValidateCsvContent(download_dir[files[idx]].data).is_valid
                 THEN ever_archived \cup {files[idx]} ELSE ever_archived
            /\ pc' = "save"
       ELSE /\ h' = [h EXCEPT !.move_failed = TRUE]
            /\ pc' = "log_arch"
            /\ UNCHANGED <<archive_dir, download_dir, ever_archived>>
  /\ UNCHANGED <<error_dir, sidecar, error_log, validators, mode, cur, files, idx,
                 counts, log_base, aborts, marked, candidate, verdict,
                 archive_filename, error_summary, window, processor>>

\* self._save_processed_file(filename), then processed_count += 1.  An exception of
\* the save reaches the inner `except Exception` (the file is archived by then).
ProcessSave ==
  /\ AtFile("process") /\ pc = "save"
  /\ \E outcome \in WriteOutcomes :
       /\ SaveProcessedFile(cur, files[idx], outcome)
       /\ IF outcome = "written"
          THEN /\ counts' = [counts EXCEPT !.processed_count = @ + 1]
               /\ idx' = idx + 1
               /\ pc' = "loop"
          ELSE /\ pc' = "log_arch"
               /\ UNCHANGED <<counts, idx>>
  /\ UNCHANGED <<download_dir, archive_dir, error_dir, error_log, mode, cur, files,
                 log_base, h, ever_archived, aborts, marked, candidate, verdict,
                 archive_filename, error_summary, window, processor>>

\* The error_details the three calls of self._log_error pass.
ErrorDetails(at, data) ==
  CASE at = "log_name" -> [text |-> "Invalid filename pattern", summary |-> ErrorSummary(<<>>)]
    [] at = "log_content" ->
         [text |-> "", summary |-> ErrorSummary(ValidateCsvContent(data).errors)]
    [] at = "log_arch" -> [text |-> "Archival failed", summary |-> ErrorSummary(<<>>)]

\* self._log_error(filename, ...) and the statements after it.  Looking the method up
\* raises AttributeError when the class has no such attribute; the exception reaches
\* the outer `except Exception`.
ProcessLogError ==
  /\ AtFile("process") /\ pc \in {"log_name", "log_content", "log_arch"}
  /\ IF "_log_error" \in ValidatorMethods
     THEN \E api \in ApiScripts :
            LET returned == GenerateGuid(api)
            IN IF returned.raised = "none"
               THEN /\ error_log' = Append(error_log,
                          [filename |-> files[idx],
                           guid |-> returned.guid,
                           text |-> LogGuid(GuidText(returned.guid)),
                           source |-> LogSource(GuidText(returned.guid)),
                           error_details |->
                             ErrorDetails(pc, IF files[idx] \in DOMAIN error_dir
                                                THEN error_dir[files[idx]].data
                                                ELSE EmptyData)])
                    /\ counts' = [counts EXCEPT !.error_count = @ + 1]
                    /\ download_dir' = IF pc = "log_arch"
                                         THEN Remove(download_dir, files[idx])
                                         ELSE download_dir
                    /\ idx' = idx + 1
                    /\ pc' = "loop"
               ELSE /\ pc' = "handler"
                    /\ UNCHANGED <<error_log, counts, download_dir, idx>>
     ELSE /\ pc' = "handler"
          /\ UNCHANGED <<error_log, counts, download_dir, idx>>
  /\ UNCHANGED <<archive_dir, error_dir, sidecar, validators, mode, cur, files,
                 log_base, h, ever_archived, aborts, marked, candidate, verdict,
                 archive_filename, error_summary, window, processor>>

\* An outer handler that cleans up and goes on without counting the file.
ProcessHandler_NotCounted ==
  /\ AtFile("process") /\ pc = "handler"
  /\ download_dir' = Remove(download_dir, files[idx])
  /\ idx' = idx + 1
  /\ pc' = "loop"
  /\ UNCHANGED <<archive_dir, error_dir, sidecar, error_log, validators, mode, cur,
                 files, counts, log_base, h, ever_archived, aborts, marked, candidate,
                 verdict, archive_filename, error_summary, window, processor>>

\* The outer `except Exception`: error_count += 1; if local_path.exists(): unlink.
ProcessHandler ==
  /\ AtFile("process") /\ pc = "handler"
  /\ counts' = [counts EXCEPT !.error_count = @ + 1]
  /\ download_dir' = Remove(download_dir, files[idx])
  /\ idx' = idx + 1
  /\ pc' = "loop"
  /\ UNCHANGED <<archive_dir, error_dir, sidecar, error_log, validators, mode, cur,
                 files, log_base, h, ever_archived, aborts, marked, candidate, verdict,
                 archive_filename, error_summary, window, processor>>

\* validate_selected_files: `if filename in self.processed_files: continue`
ValidateSkip ==
  /\ AtFile("validate") /\ pc = "loop"
  /\ InLedger(cur, files[idx])
  /\ idx' = idx + 1
  /\ h' = Reached(files[idx], TRUE)
  /\ UNCHANGED <<download_dir, archive_dir, error_dir, sidecar, error_log, validators,
                 mode, cur, files, pc, counts, log_base, ever_archived, aborts, marked, candidate, verdict,
                 archive_filename, error_summary, window, processor>>

\* open(temp_path, 'wb'): creates or truncates the temporary file, or raises.
ValidateOpen ==
  /\ AtFile("validate") /\ pc = "loop"
  /\ ~InLedger(cur, files[idx])
  /\ h' = Reached(files[idx], FALSE)
  /\ \E ok \in BOOLEAN :
       IF ok
       THEN /\ download_dir' = Put(download_dir, TempPath(files[idx]),
                                   [origin |-> files[idx], data |-> EmptyData])
            /\ pc' = "retr"
       ELSE /\ pc' = "handler"
            /\ UNCHANGED download_dir
  /\ UNCHANGED <<archive_dir, error_dir, sidecar, error_log, validators, mode, cur,
                 files, idx, counts, log_base, ever_archived, aborts, marked, candidate, verdict,
                 archive_filename, error_summary, window, processor>>

\* ftp.retrbinary(f'RETR {filename}', f.write) into the temporary file, or it raises.
ValidateRetr ==
  /\ AtFile("validate") /\ pc = "retr"
  /\ \E ok \in BOOLEAN, data \in Contents(files[idx]) :
       IF ok
       THEN /\ download_dir' = Put(download_dir, TempPath(files[idx]),
                                   [origin |-> files[idx], data |-> data])
            /\ pc' = "check"
       ELSE /\ pc' = "handler"
            /\ UNCHANGED download_dir
  /\ UNCHANGED <<archive_dir, error_dir, sidecar, error_log, validators, mode, cur,
                 files, idx, counts, log_base, h, ever_archived, aborts, marked, candidate, verdict,
                 archive_filename, error_summary, window, processor>>

\* A variant that leaves the temporary file where it is.
DryRunCleanup_Keep(dir, temp_path) == dir

\* What the dry run does with the temporary file once it is judged: temp_path.unlink()
DryRunCleanup(dir, temp_path) == Remove(dir, temp_path)

\* The filename and content checks of the dry run, the count, and temp_path.unlink().
ValidateCheck ==
  /\ AtFile("validate") /\ pc = "check"
  /\ counts' =
       IF /\ ValidateFilenamePattern(files[idx])
          /\ ValidateCsvContent(download_dir[TempPath(files[idx])].data).is_valid
       THEN [counts EXCEPT !.valid_count = @ + 1]
       ELSE [counts EXCEPT !.invalid_count = @ + 1]
  /\ download_dir' = DryRunCleanup(download_dir, TempPath(files[idx]))
  /\ idx' = idx + 1
  /\ pc' = "loop"
  /\ UNCHANGED <<archive_dir, error_dir, sidecar, error_log, validators, mode, cur,
                 files, log_base, h, ever_archived, aborts, marked, candidate, verdict,
                 archive_filename, error_summary, window, processor>>

\* `except Exception` of the dry run: invalid_count += 1; if temp_path.exists(): unlink.
ValidateHandler ==
  /\ AtFile("validate") /\ pc = "handler"
  /\ counts' = [counts EXCEPT !.invalid_count = @ + 1]
  /\ download_dir' = Remove(download_dir, TempPath(files[idx]))
  /\ idx' = idx + 1
  /\ pc' = "loop"
  /\ UNCHANGED <<archive_dir, error_dir, sidecar, error_log, validators, mode, cur,
                 files, log_base, h, ever_archived, aborts, marked, candidate, verdict,
                 archive_filename, error_summary, window, processor>>

\* The host ends the program while a driver runs (the workers are daemon threads):
\* every validator object is gone, the directories stay as they are.
Abort ==
  /\ mode # "idle"
  /\ aborts < MaxAborts
  /\ aborts' = aborts + 1
  /\ mode' = "idle"
  /\ pc' = "idle"
  /\ files' = <<>>
  /\ idx' = 1
  /\ counts' = ZeroCounts
  /\ log_base' = 0
  /\ h' = NoHistory
  /\ validators' = [i \in Inst |-> [live |-> FALSE, processed_files |-> {}]]
  /\ UNCHANGED <<download_dir, archive_dir, error_dir, sidecar, error_log, cur,
                 ever_archived, marked, candidate, verdict,
                 archive_filename, error_summary, window, processor>>

Next ==
  \/ NewValidator(GuiValidator)
  \/ \E fs \in FileLists : StartProcess(GuiValidator, fs)
  \/ \E fs \in FileLists : StartValidate(GuiValidator, fs)
  \/ Finish
  \/ ProcessSkip
  \/ ProcessOpen
  \/ ProcessRetr
  \/ ProcessRejectName
  \/ ProcessRejectContent
  \/ ProcessArchive
  \/ ProcessSave
  \/ ProcessLogError
  \/ ProcessHandler
  \/ ValidateSkip
  \/ ValidateOpen
  \/ ValidateRetr
  \/ ValidateCheck
  \/ ValidateHandler
  \/ Abort

Spec == Init /\ [][Next]_vars

-----------------------------------------------------------------------------
(* The ledger alone: validator objects created on one download directory   *)
(* and _save_processed_file called on them, one call at a time, as the     *)
(* unit tests do.                                                          *)

\* A name that ends in a line break (it passes _validate_filename_pattern).
FileNewline == FileUpper \o <<"\n">>

\* The names marked processed in this specification.
LedgerNames == {FileUpper, FileBadName, FileNewline}

\* A validator object is constructed (once).
CreateValidator(i) == ~validators[i].live /\ NewValidator(i)

\* validator._save_processed_file(filename), called directly; an OSError reaches the
\* caller.  `again` records that the call repeats the call before it, which returned;
\* `same` that it left the object's set and the sidecar file as they were.
MarkProcessed(i, filename) ==
  /\ mode = "idle"
  /\ validators[i].live
  /\ \E outcome \in WriteOutcomes :
       /\ SaveProcessedFile(i, filename, outcome)
       /\ marked' = [inst |-> i, name |-> filename, outcome |-> outcome,
                     again |-> /\ marked.inst = i /\ marked.name = filename
                               /\ marked.outcome = "written",
                     same |-> validators'[i] = validators[i] /\ sidecar' = sidecar]
  /\ UNCHANGED <<download_dir, archive_dir, error_dir, error_log, mode, cur, files, idx,
                 pc, counts, log_base, h, ever_archived, aborts, candidate, verdict,
                 archive_filename, error_summary, window, processor>>

NextLedger ==
  \/ \E i \in Inst : CreateValidator(i)
  \/ \E i \in Inst, filename \in LedgerNames : MarkProcessed(i, filename)

SpecLedger == Init /\ [][NextLedger]_vars


-----------------------------------------------------------------------------
(* The filename check alone: _validate_filename_pattern called on a name,   *)
(* as the unit tests do.                                                   *)

\* What may stand where the name's prefix stands.
TriedPrefixes ==
  { PatternPrefix, <<"c", "l", "i", "n", "i", "c", "a", "l", "d", "a", "t", "a", "_">>,
    <<"C", "l", "i", "n", "i", "c", "a", "l", "D", "a", "t", "a", "_">>, <<"C", "L", "I", "N", "I", "C", "A", "L", "D", "A", "T", "A">>,
    <<"X", "C", "L", "I", "N", "I", "C", "A", "L", "D", "A", "T", "A", "_">>, <<"D", "A", "T", "A", "_">>, <<>> }

\* What may stand where the 14 digits stand.
TriedStamps ==
  { Stamp, <<"2", "0", "2", "3", "1", "2", "2", "5", "1", "4", "3", "0", "0", "0">>,
    <<"2", "0", "2", "4", "0", "1", "0", "1">>, <<"2", "0", "2", "4", "0", "1", "0", "1", "1", "2", "0", "0", "0">>,
    <<"2", "0", "2", "4", "0", "1", "0", "1", "1", "2", "0", "0", "0", "0", "0">>, <<"2", "0", "2", "4", "-", "0", "1", "-", "0", "1", "-", "1", "2", "0", "0", "0", "0">>,
    <<"2", "0", "2", "4", "0", "1", "0", "1", "1", "2", "0", "0", "0", "O">>, <<>> }

\* What may stand where the extension stands.
TriedSuffixes ==
  { PatternSuffix, <<".", "c", "s", "v">>, <<".", "C", "s", "v">>, <<".", "T", "X", "T">>, <<>>,
    <<".", "C", "S", "V", "\n">>, <<".", "c", "s", "v", "\n">>, <<".", "C", "S", "V", "\n", "\n">>,
    <<".", "C", "S", "V", " ">>, <<".", "C", "S", "V", ".", "b", "a", "k">>, <<"_", "C", "S", "V">> }

\* The names the check is tried on.
TriedNames == {p \o d \o x : p \in TriedPrefixes, d \in TriedStamps, x \in TriedSuffixes}

\* A name is at hand and the check has not been called on it.
InitMatch ==
  /\ InitState
  /\ candidate \in TriedNames
  /\ verdict = NoVerdict

\* self._validate_filename_pattern(filename) returns.
MatchName ==
  /\ ~verdict.done
  /\ verdict' = [done |-> TRUE, value |-> ValidateFilenamePattern(candidate)]
  /\ UNCHANGED <<download_dir, archive_dir, error_dir, sidecar, error_log, validators,
                 mode, cur, files, idx, pc, counts, log_base, h, ever_archived, aborts,
                 marked, candidate,
                 archive_filename, error_summary, window, processor>>

\* The valid branch of process_selected_files computes archive_filename for a name
\* the matcher accepted.
NameArchive ==
  /\ verdict.done /\ verdict.value
  /\ archive_filename = <<>>
  /\ \E current_date \in Dates : archive_filename' = ArchiveFilename(candidate, current_date)
  /\ UNCHANGED <<download_dir, archive_dir, error_dir, sidecar, error_log, validators,
                 mode, cur, files, idx, pc, counts, log_base, h, ever_archived, aborts,
                 marked, candidate, verdict, error_summary, window, processor>>

NextMatch == MatchName \/ NameArchive

SpecMatch == InitMatch /\ [][NextMatch]_vars

-----------------------------------------------------------------------------
(* The content check alone: _validate_csv_content called on a file, as the *)
(* unit tests do.                                                          *)

\* RowA again with another dosage and end date: the same patient, trial, drug and start.
RowALater ==
  << RowA[1], RowA[2], RowA[3], <<"5", "0">>, RowA[5], <<"2", "0", "2", "4", "-", "1", "2", "-", "3", "1">>,
     OutcomeWorsened, RowA[8], RowA[9] >>

\* Two acceptable rows of different patients and trials whose fields, written one
\* after the other with "_" between them, read the same.
RowSplitA ==
  << <<"P", "T">>, <<"1", "_", "T", "R">>, RowA[3], RowA[4], RowA[5], RowA[6], RowA[7], RowA[8], RowA[9] >>

RowSplitB ==
  << <<"P", "T", "_", "1">>, <<"T", "R">>, RowA[3], RowA[4], RowA[5], RowA[6], RowA[7], RowA[8], RowA[9] >>

\* RowA without its last field.
RowShort == SubSeq(RowA, 1, 8)

\* A row of its own patient that int() and strptime() accept, with a dosage written
\* with an underscore and a start date whose month and day have one digit.
RowLoose ==
  << <<"P", "T", "0", "0", "3">>, RowA[2], RowA[3], <<"1", "_", "0">>, <<"2", "0", "2", "4", "-", "1", "-", "5">>, RowA[6], RowA[7], RowA[8], RowA[9] >>

\* The data rows the files are made of.
TriedRows == {RowA, RowALater, RowZeroDosage, RowSplitA, RowSplitB, RowShort, RowLoose}

\* The header with one field renamed.
WrongHeader == [ExpectedFields EXCEPT ![2] = <<"W", "r", "o", "n", "g", "F", "i", "e", "l", "d">>]

\* The first lines the files are made of.
TriedHeaders == {ExpectedFields, WrongHeader}

\* The sequences of at most MaxRows data rows.
TriedBodies == UNION {[1..n -> TriedRows] : n \in 0..MaxRows}

\* Longer files, of up to MaxLongRows data rows, for the summary of many violations.
TriedLongBodies ==
  UNION {[1..n -> {RowZeroDosage, RowShort}] : n \in (MaxRows + 1)..MaxLongRows}

\* What csv.reader yields for the files: nothing at all, or a first line and data rows.
TriedRowLists ==
  {<<>>} \cup {<<hd>> \o body : hd \in TriedHeaders, body \in TriedBodies}
         \cup {<<ExpectedFields>> \o body : body \in TriedLongBodies}

\* The two except clauses of _validate_csv_content, by the message they return.
ReadFaults == {"File is not valid UTF-8 encoded CSV", "File read error"}

\* The files the check is tried on: read without a fault, or with a fault that strikes
\* when row fault_row is read (the row after the last one: at the end of the file).
TriedFiles ==
  {[rows |-> r, fault |-> "none", fault_row |-> 0] : r \in TriedRowLists}
  \cup UNION {{[rows |-> r, fault |-> f, fault_row |-> k] :
                 f \in ReadFaults, k \in 1..(Len(r) + 1)} : r \in TriedRowLists}

\* A file is at hand and the check has not been called on it.
InitContent ==
  /\ InitState
  /\ candidate \in TriedFiles
  /\ verdict = NoVerdict

\* self._validate_csv_content(file_path) returns.
CheckContent ==
  /\ ~verdict.done
  /\ verdict' = [done |-> TRUE, value |-> ValidateCsvContent(candidate)]
  /\ UNCHANGED <<download_dir, archive_dir, error_dir, sidecar, error_log, validators,
                 mode, cur, files, idx, pc, counts, log_base, h, ever_archived, aborts,
                 marked, candidate,
                 archive_filename, error_summary, window, processor>>

\* The else branch of `if is_valid` in process_selected_files builds error_summary
\* from the errors of the verdict.
SummariseErrors ==
  /\ verdict.done /\ ~verdict.value.is_valid
  /\ ~error_summary.done
  /\ error_summary' = [done |-> TRUE, value |-> ErrorSummary(verdict.value.errors)]
  /\ UNCHANGED <<download_dir, archive_dir, error_dir, sidecar, error_log, validators,
                 mode, cur, files, idx, pc, counts, log_base, h, ever_archived, aborts,
                 marked, candidate, verdict, archive_filename, window, processor>>

NextContent == CheckContent \/ SummariseErrors

SpecContent == InitContent /\ [][NextContent]_vars

-----------------------------------------------------------------------------
(* The checks of one record, tried on files of one record and of the same    *)
(* record twice                                                              *)

\* What stands in the dosage field.
TriedDosages ==
  { <<"1", "0">>,
    <<"-", "5">>,
    <<"a", "b", "c">>,
    <<>> }

\* What stands in the two date fields.
TriedDates ==
  { <<"2", "0", "2", "4", "-", "0", "1", "-", "0", "1">>,
    <<"2", "0", "2", "4", "-", "0", "1", "-", "1", "0">>,
    <<"2", "0", "2", "4", "-", "1", "-", "5">>,
    <<"0", "1", "/", "1", "0", "/", "2", "0", "2", "4">>,
    <<"2", "0", "2", "4", "-", "0", "2", "-", "3", "0">>,
    <<>> }

\* What stands in the outcome field.
TriedOutcomes == {OutcomeImproved, <<"M", "a", "y", "b", "e">>, <<>>}

\* What stands in the side effects field.
TriedSideEffects == {<<"N", "o", "n", "e">>, <<>>}

\* The records: P1,T1,D1,<dosage>,<start>,<end>,<outcome>,<side effects>,A
TriedRecords ==
  { <<<<"P", "1">>, <<"T", "1">>, <<"D", "1">>, dosage, start_date, end_date, outcome,
      side_effects, <<"A">> >> :
      dosage \in TriedDosages, start_date \in TriedDates, end_date \in TriedDates,
      outcome \in TriedOutcomes, side_effects \in TriedSideEffects }

\* A file with the header and one record, or with the record on two lines.
InitRecord ==
  /\ InitState
  /\ \E row \in TriedRecords :
       candidate \in {[rows |-> <<ExpectedFields, row>>, fault |-> "none", fault_row |-> 0],
                      [rows |-> <<ExpectedFields, row, row>>, fault |-> "none",
                       fault_row |-> 0]}
  /\ verdict = NoVerdict

NextRecord == CheckContent

SpecRecord == InitRecord /\ [][NextRecord]_vars

-----------------------------------------------------------------------------
(* The identifier of an error report (_generate_guid), called on its own *)

\* The API is at hand and _generate_guid has not been called.
InitGuid ==
  /\ InitState
  /\ candidate \in ApiScripts
  /\ verdict = NoVerdict

\* validator._generate_guid() ends.
CallGenerateGuid ==
  /\ ~verdict.done
  /\ verdict' = [done |-> TRUE, value |-> GenerateGuid(candidate)]
  /\ UNCHANGED <<download_dir, archive_dir, error_dir, sidecar, error_log, validators,
                 mode, cur, files, idx, pc, counts, log_base, h, ever_archived, aborts,
                 marked, candidate, archive_filename, error_summary, window, processor>>

NextGuid == CallGenerateGuid

SpecGuid == InitGuid /\ [][NextGuid]_vars

-----------------------------------------------------------------------------
(* The window (PAGHClinicalDataManager): its buttons, its worker threads and *)
(* check_queue                                                               *)
(*                                                                           *)
(* A worker is modelled by the steps it has yet to take: the tags of the     *)
(* messages it puts on the status queue, one after the other, and "move"     *)
(* where it renames the downloaded file into the archive or the error        *)
(* directory.  A run of messages whose tag check_queue does not look for     *)
(* ("info", "success", "warning", "summary") stands as one "info".           *)

\* The buttons that start a worker thread.
Buttons == {"connect", "disconnect", "refresh", "validate", "process"}

\* The steps of the worker a button starts, by the branch its code takes.  Every
\* worker ends with status_queue.put(("complete", "complete")).
WorkerSteps(button) ==
  CASE button = "connect" ->
         { <<"info", "complete">>,                       \* connected, files listed
           <<"error", "error", "complete">> }            \* connect failed
    [] button = "disconnect" -> { <<"info", "complete">> }
    [] button = "refresh" ->
         { <<"info", "complete">>,
           <<"error", "info", "complete">> }             \* get_file_list failed
    [] button = "validate" ->
         { <<"info", "complete", "info", "complete">>,   \* valid, or skipped
           <<"info", "error", "error", "info", "complete", "info", "complete">> }
    [] button = "process" ->
         { <<"info", "complete", "info", "complete">>,   \* skipped
           <<"info", "move", "info", "complete", "info", "complete">>,   \* archived
           <<"info", "error", "move", "error", "info", "complete", "info", "complete">> }

\* The threads that have not finished.
Running == DOMAIN threads

\* The window is up: no worker was started and the status queue is empty.
InitGui ==
  /\ InitState
  /\ candidate = <<>>
  /\ verdict = NoVerdict

\* What the five handlers share once they are past `if self.is_processing: return`:
\* self.is_processing = True, then threading.Thread(target=...).start().
StartThread(button) ==
  /\ Len(threads) < MaxThreads
  /\ is_processing' = TRUE
  /\ \E steps \in WorkerSteps(button) :
       threads' = Append(threads, [target |-> button, steps |-> steps])
  /\ UNCHANGED <<download_dir, archive_dir, error_dir, sidecar, error_log, validators,
                 mode, cur, files, idx, pc, counts, log_base, h, ever_archived, aborts,
                 marked, candidate, verdict, archive_filename, error_summary,
                 status_queue, processor>>

ConnectToServer ==
  /\ ~is_processing
  /\ StartThread("connect")

DisconnectFromServer ==
  /\ ~is_processing
  /\ StartThread("disconnect")

RefreshFileList ==
  /\ ~is_processing
  /\ StartThread("refresh")

ValidateSelected ==
  /\ ~is_processing
  /\ StartThread("validate")

ProcessSelected ==
  /\ ~is_processing
  /\ StartThread("process")

\* The threads without thread t.
Without(t) == SubSeq(threads, 1, t - 1) \o SubSeq(threads, t + 1, Len(threads))

\* A worker thread takes its next step: status_queue.put((message, tag)), or the
\* rename of the file.  It has finished when it has taken its last step.  At most
\* MaxThreads messages wait in the queue.
WorkerStep ==
  \E t \in Running :
    /\ Head(threads[t].steps) # "move" => Len(status_queue) < MaxThreads
    /\ threads' = IF Len(threads[t].steps) = 1 THEN Without(t)
                  ELSE [threads EXCEPT ![t].steps = Tail(@)]
    /\ status_queue' = IF Head(threads[t].steps) = "move" THEN status_queue
                       ELSE Append(status_queue, Head(threads[t].steps))
    /\ UNCHANGED <<download_dir, archive_dir, error_dir, sidecar, error_log, validators,
                   mode, cur, files, idx, pc, counts, log_base, h, ever_archived, aborts,
                   marked, candidate, verdict, archive_filename, error_summary,
                   is_processing, processor>>

\* check_queue takes one message off the queue (get_nowait); log_message, which it
\* calls for every message, runs self.root.update(), so the handlers of the buttons
\* run between two messages as well as between two calls of check_queue.
CheckQueue ==
  /\ status_queue # <<>>
  /\ status_queue' = Tail(status_queue)
  /\ is_processing' = IF Head(status_queue) \in {"complete", "error"}
                      THEN FALSE ELSE is_processing
  /\ UNCHANGED <<download_dir, archive_dir, error_dir, sidecar, error_log, validators,
                 mode, cur, files, idx, pc, counts, log_base, h, ever_archived, aborts,
                 marked, candidate, verdict, archive_filename, error_summary, threads,
                 processor>>

NextGui ==
  \/ ConnectToServer
  \/ DisconnectFromServer
  \/ RefreshFileList
  \/ ValidateSelected
  \/ ProcessSelected
  \/ WorkerStep
  \/ CheckQueue

SpecGui == InitGui /\ [][NextGui]_vars

-----------------------------------------------------------------------------
(* The FTP side alone (ClinicalDataProcessor): connect, disconnect and      *)
(* get_file_list called one after the other on one processor.  The server's *)
(* directory is `candidate`; what the last call did is `verdict`.           *)

FileNotes == <<"n", "o", "t", "e", "s", ".", "t", "x", "t">>

\* The names the server's directory may hold.
ServerNames == {FileUpper, FileLower, FileBadName, FileNotes}

\* f.upper().endswith('.CSV')
EndsWithCsv(f) ==
  /\ Len(f) >= Len(PatternSuffix)
  /\ \A i \in 1..Len(PatternSuffix) :
       Fold(f[Len(f) - Len(PatternSuffix) + i]) = PatternSuffix[i]

\* self.ftp.quit() on an FTP object: the QUIT command is answered and the connection is
\* closed, or the command raises (an error reply, a timeout, a connection that is
\* closed already) and the object is left as it was.
QuitRaises(ftp, answered) == ~(ftp = "open" /\ answered)

\* The FTP object after self.ftp.quit().
AfterQuit(ftp, answered) == IF QuitRaises(ftp, answered) THEN ftp ELSE "closed"

\* How connect may end once the old connection is dealt with: ftplib.FTP(...) raises,
\* a later call (login, pwd) raises, or nothing raises.
ConnectOutcomes == {"refused", "login_raises", "connected"}

\* What a call of the processor did: the method, the list it returned (empty for connect,
\* whose return value is the self.connected it leaves, and for disconnect) and whether
\* a command was sent to the server over an open connection for the file list.
Did(op, returned, contacted) ==
  [done |-> TRUE, value |-> [op |-> op, returned |-> returned, contacted |-> contacted]]

\* A processor was constructed and none of its methods was called.
InitFtp ==
  /\ InitState
  /\ candidate \in SUBSET ServerNames
  /\ verdict = [done |-> FALSE,
                value |-> [op |-> "none", returned |-> <<>>, contacted |-> FALSE]]

\* connect(): an old connection is quit (exceptions ignored), a new FTP object is
\* made and logged in, self.connected = True; on any exception self.connected = False.
Connect ==
  /\ \E answered \in BOOLEAN, outcome \in ConnectOutcomes :
       LET old == IF processor.ftp = "None" THEN "None"
                  ELSE AfterQuit(processor.ftp, answered)
       IN  /\ processor' =
                 CASE outcome = "refused" -> [ftp |-> old, connected |-> FALSE]
                   [] outcome = "login_raises" -> [ftp |-> "open", connected |-> FALSE]
                   [] outcome = "connected" -> [ftp |-> "open", connected |-> TRUE]
           /\ verdict' = Did("connect", <<>>, FALSE)
  /\ UNCHANGED <<download_dir, archive_dir, error_dir, sidecar, error_log, validators,
                 mode, cur, files, idx, pc, counts, log_base, h, ever_archived, aborts,
                 marked, candidate, archive_filename, error_summary, window>>

\* disconnect(): if self.ftp: try: self.ftp.quit(); self.connected = False
\* except: pass
Disconnect ==
  /\ \E answered \in BOOLEAN :
       processor' =
         IF processor.ftp = "None" \/ QuitRaises(processor.ftp, answered)
         THEN processor
         ELSE [ftp |-> AfterQuit(processor.ftp, answered), connected |-> FALSE]
  /\ verdict' = Did("disconnect", <<>>, FALSE)
  /\ UNCHANGED <<download_dir, archive_dir, error_dir, sidecar, error_log, validators,
                 mode, cur, files, idx, pc, counts, log_base, h, ever_archived, aborts,
                 marked, candidate, archive_filename, error_summary, window>>

\* get_file_list(): [] if not self.ftp or not self.connected; else self.ftp.nlst(),
\* of which the names ending in .CSV (any case) are returned sorted, and [] if it raises.
GetFileList ==
  /\ IF processor.ftp = "None" \/ ~processor.connected
     THEN verdict' = Did("get_file_list", <<>>, FALSE)
     ELSE \E answered \in BOOLEAN :
            verdict' =
              IF processor.ftp = "open" /\ answered
              THEN Did("get_file_list", Sorted({f \in candidate : EndsWithCsv(f)}), TRUE)
              ELSE Did("get_file_list", <<>>, processor.ftp = "open")
  /\ UNCHANGED <<download_dir, archive_dir, error_dir, sidecar, error_log, validators,
                 mode, cur, files, idx, pc, counts, log_base, h, ever_archived, aborts,
                 marked, candidate, archive_filename, error_summary, window, processor>>

NextFtp == Connect \/ Disconnect \/ GetFileList

SpecFtp == InitFtp /\ [][NextFtp]_vars

-----------------------------------------------------------------------------
(* Properties *)

\* A file of name n lies in the download directory under its own name.
InDownload(n) == n \in DOMAIN download_dir

\* A file of name n lies in the archive (under its archive name).
InArchive(n) == \E p \in DOMAIN archive_dir : archive_dir[p].origin = n

\* A file of name n lies in the error directory.
InError(n) == n \in DOMAIN error_dir

\* The host ends the program in this step.
AbortStep == aborts' # aborts

\* C1: at every point of every sequence of processing runs, a file, identified by its
\* name, is in at most one of the download, archive and error directories.
C1_AtMostOnePlace ==
  \A n \in Names :
    /\ ~(InDownload(n) /\ InArchive(n))
    /\ ~(InDownload(n) /\ InError(n))
    /\ ~(InArchive(n) /\ InError(n))

\* C2: every name in the ledger, in memory or in the sidecar file, is the name of a
\* file that passed the filename matcher and the content validator and was moved to
\* the archive; rejected files are never added.
C2_LedgerOnlyArchived ==
  /\ \A i \in Inst : validators[i].processed_files \subseteq ever_archived
  /\ LoadProcessedFiles \subseteq ever_archived

\* A name is in the persisted ledger while files rejected for their name and for
\* their content lie in the error directory.
C2_Witness ==
  /\ FileUpper \in LoadProcessedFiles
  /\ FileUpper \in validators[GuiValidator].processed_files
  /\ InError(FileBadName)
  /\ InError(FileUpper)

\* C3: once process_selected_files is through with a file that was not in the ledger,
\* matched the pattern, was valid and was moved to the archive, the file is in the
\* archive and in neither other directory, its name is in the ledger (in memory and
\* in the sidecar file) and the archived count has grown by exactly one.
C3_ArchivedFile ==
  (mode = "process" /\ pc = "loop" /\ h.moved) =>
    /\ InArchive(h.name)
    /\ ~InDownload(h.name)
    /\ ~InError(h.name)
    /\ h.name \in validators[cur].processed_files
    /\ h.name \in LoadProcessedFiles
    /\ counts.processed_count = h.before.processed_count + 1

\* C4: when process_selected_files reaches a file whose name is in the ledger, nothing
\* changes in the three directories, the error report log, the ledger (in memory and
\* on disk) and the two counts; the loop only moves on.
C4_SkipChangesNothing ==
  [][(/\ mode = "process" /\ pc = "loop" /\ idx <= Len(files)
      /\ files[idx] \in validators[cur].processed_files
      /\ ~AbortStep)
     => /\ download_dir' = download_dir
        /\ archive_dir' = archive_dir
        /\ error_dir' = error_dir
        /\ error_log' = error_log
        /\ sidecar' = sidecar
        /\ validators' = validators
        /\ counts' = counts
        /\ idx' = idx + 1]_vars

\* A processing run has just skipped a file that is in the ledger.
C4_Witness == mode = "process" /\ pc = "loop" /\ idx > 1 /\ h.skipped

\* C5: in a run of process_selected_files the number of entries appended to the error
\* report log equals the number of files rejected or failed so far.
C5_OneEntryPerRejectedFile ==
  (mode = "process" /\ pc = "loop") => Len(error_log) - log_base = counts.error_count

\* C6: every call self._log_error(filename, summary) of the pipeline appends one entry
\* to the error report log and returns; no exception of it reaches the outer handler.
C6_ErrorReporterTotal ==
  [][(/\ mode = "process" /\ pc \in {"log_name", "log_content", "log_arch"}
      /\ ~AbortStep)
     => /\ Len(error_log') = Len(error_log) + 1
        /\ error_log'[Len(error_log')].filename = files[idx]
        /\ pc' # "handler"]_vars

\* C7: when a processing run is aborted while it handles a file, the file is either
\* not moved yet, or in the error directory, or in the archive with its name in the
\* persisted ledger: an abort never leaves a file that this run moved to the archive
\* out of the sidecar file.
C7_AbortLeavesNoHalfRoutedFile ==
  [][(AbortStep /\ mode = "process" /\ pc # "loop" /\ h.moved)
     => (InArchive(h.name)' /\ h.name \in LedgerOf(sidecar'))]_vars

\* C8: once process_selected_files is through with a file whose move to the archive or
\* to the error directory failed, the error report log has one new entry for it with
\* a summary that is not a validation summary, its name is not in the ledger and no
\* copy of it is left in the download directory.
C8_MoveFailureReported ==
  (mode = "process" /\ pc = "loop" /\ h.move_failed) =>
    /\ Len(error_log) = h.log_before + 1
    /\ error_log[Len(error_log)].filename = h.name
    /\ error_log[Len(error_log)].error_details.text \notin {"", "Invalid filename pattern"}
    /\ h.name \notin validators[cur].processed_files
    /\ h.name \notin LoadProcessedFiles
    /\ ~InDownload(h.name)

\* C9: a step of validate_selected_files changes neither the archive, the error
\* directory, the ledger (in memory and on disk) nor the error report log, nor any
\* file of the download directory other than its temporary file; when it is through
\* with a file it downloaded (judged or failed) the temporary file is gone; a file in
\* the ledger is skipped without being counted.
C9_DryRunChangesNothing ==
  [][(mode = "validate" /\ ~AbortStep)
     => /\ archive_dir' = archive_dir
        /\ error_dir' = error_dir
        /\ sidecar' = sidecar
        /\ validators' = validators
        /\ error_log' = error_log
        /\ \A n \in Names :
             /\ InDownload(n)' = InDownload(n)
             /\ InDownload(n) => download_dir'[n] = download_dir[n]
        /\ (pc # "loop" /\ idx' = idx + 1)
           => TempPath(files[idx]) \notin DOMAIN download_dir'
        /\ (/\ pc = "loop" /\ idx <= Len(files)
            /\ files[idx] \in validators[cur].processed_files)
           => (idx' = idx + 1 /\ counts' = counts /\ download_dir' = download_dir)]_vars

\* A dry run is through with two files: one was skipped, the other counted invalid.
C9_Witness ==
  /\ mode = "validate" /\ pc = "loop" /\ Len(files) = 2 /\ idx = 3
  /\ counts.valid_count + counts.invalid_count = 1
  /\ counts.invalid_count = 1

\* C10: a name once in the ledger is never removed: the set of a validator object
\* only grows, and a save that succeeds keeps every name the sidecar file held.
C10_LedgerMonotonic ==
  [][/\ \A i \in Inst :
          validators[i].live =>
            validators[i].processed_files \subseteq validators'[i].processed_files
     /\ (\E i \in Inst :
           /\ validators'[i] # validators[i]
           /\ sidecar' = [exists |-> TRUE,
                          text |-> LedgerText(validators'[i].processed_files)])
        => LedgerOf(sidecar) \subseteq LedgerOf(sidecar')]_vars

\* The number of lines of the persisted ledger that are the name n.
Occurrences(n) ==
  LET lines == IF sidecar.exists THEN SplitLines(sidecar.text) ELSE <<>>
  IN  Cardinality({k \in DOMAIN lines : lines[k] = n})

\* C11: a call _save_processed_file(name) that repeats the call before it leaves the
\* object's set and the sidecar file exactly as the first call left them, and the
\* ledger holds the name exactly once.
C11_MarkIdempotent ==
  (marked.again /\ marked.outcome = "written") =>
    /\ marked.same
    /\ marked.name \in validators[marked.inst].processed_files
    /\ Occurrences(marked.name) = 1

\* C12: a validator object created after another object's save returned loads exactly
\* the set of names that object holds, and loads the empty set when there is no
\* sidecar file.
C12_SaveLoadRoundTrip ==
  [][\A j \in Inst :
       (~validators[j].live /\ validators'[j].live) =>
         IF ~sidecar.exists
         THEN validators'[j].processed_files = {}
         ELSE marked.outcome = "written" =>
                validators'[j].processed_files
                  = validators[marked.inst].processed_files]_vars

\* C13: when two validator objects share the sidecar file and the file holds what one
\* of them wrote, a save of a further name by the other keeps every name the file
\* held and adds the new one (no update is lost).
C13_NoLostUpdate ==
  [][\A i, j \in Inst :
       (/\ i # j /\ validators[i].live /\ validators[j].live
        /\ marked.inst = i /\ marked.outcome = "written"
        /\ marked'.inst = j /\ marked'.outcome = "written")
       => LedgerOf(sidecar)
            \cup LedgerOf([exists |-> TRUE, text |-> LedgerText({marked'.name})])
          \subseteq LedgerOf(sidecar')]_vars

\* C14: _validate_filename_pattern(s) is true exactly when s is, letter case apart,
\* CLINICALDATA_ followed by 14 decimal digits followed by .CSV and nothing else; the
\* check changes no file, ledger or log.
C14_FilenameExact ==
  [][verdict'.done =>
       /\ verdict'.value = FullMatch(candidate)
       /\ UNCHANGED <<download_dir, archive_dir, error_dir, sidecar, error_log,
                      validators>>]_vars

\* The file under check was read without a fault before its first line was compared.
HeaderRead == candidate.fault = "none" \/ candidate.fault_row > 1

\* C15: every verdict of _validate_csv_content has is_valid true exactly when its
\* list of violations is empty.
C15_ValidIffNoViolation ==
  verdict.done => (verdict.value.is_valid <=> verdict.value.errors = <<>>)

\* A scan of two data rows returned two violations.
C15_Witness ==
  /\ verdict.done /\ candidate.fault = "none" /\ Len(candidate.rows) = 3
  /\ candidate.rows[1] = ExpectedFields
  /\ ~verdict.value.is_valid /\ Len(verdict.value.errors) = 2

\* C16: for a file that cannot be read or decoded, wherever the fault strikes,
\* _validate_csv_content returns a verdict, and the verdict is invalid with exactly one
\* violation, which is the fault's and not a row's, and zero valid records.
C16_ReadFaultIsData ==
  (verdict.done /\ candidate.fault # "none") =>
    /\ ~verdict.value.is_valid
    /\ Len(verdict.value.errors) = 1
    /\ verdict.value.errors[1].row = 0
    /\ verdict.value.record_count = 0
    /\ (candidate.fault_row <= 1 \/ candidate.rows[1] = ExpectedFields)
         => verdict.value.errors[1].msgs = << <<candidate.fault>> >>

\* The fault struck after an acceptable row was read.
C16_Witness ==
  /\ verdict.done /\ candidate.fault # "none" /\ candidate.fault_row = 3
  /\ Len(candidate.rows) = 3
  /\ candidate.rows[1] = ExpectedFields /\ candidate.rows[2] = RowA
  /\ ~verdict.value.is_valid /\ verdict.value.record_count = 0

\* C17: a first line that is not the 9-field header gives the verdict invalid with
\* exactly one violation, which is not a row's, and zero valid records, whatever rows
\* follow.
C17_HeaderMismatchStops ==
  (/\ verdict.done /\ HeaderRead /\ Len(candidate.rows) >= 1
   /\ candidate.rows[1] # ExpectedFields)
  => /\ ~verdict.value.is_valid
     /\ Len(verdict.value.errors) = 1
     /\ verdict.value.errors[1].row = 0
     /\ verdict.value.errors[1].msgs = << <<"Invalid header">> >>
     /\ verdict.value.record_count = 0

\* The header has one field renamed and a row with a violation follows it.
C17_Witness ==
  /\ verdict.done /\ candidate.fault = "none" /\ Len(candidate.rows) = 3
  /\ candidate.rows[1] = WrongHeader /\ candidate.rows[2] = RowZeroDosage
  /\ candidate.rows[3] = RowA
  /\ Len(verdict.value.errors) = 1

\* C18: a file of the correct header and no data row is valid, with no violation and
\* zero valid records.
C18_HeaderOnlyValid ==
  (verdict.done /\ candidate.fault = "none" /\ candidate.rows = <<ExpectedFields>>)
  => /\ verdict.value.is_valid
     /\ verdict.value.errors = <<>>
     /\ verdict.value.record_count = 0

\* The check returned for the file that holds the header alone.
C18_Witness ==
  /\ verdict.done /\ candidate.fault = "none" /\ candidate.rows = <<ExpectedFields>>
  /\ verdict.value.is_valid

\* C19: a file without any line gives the verdict invalid with the single violation
\* "File is empty" and zero valid records.
C19_EmptyFile ==
  (verdict.done /\ candidate.fault = "none" /\ candidate.rows = <<>>)
  => /\ ~verdict.value.is_valid
     /\ Len(verdict.value.errors) = 1
     /\ verdict.value.errors[1].msgs = << <<"File is empty">> >>
     /\ verdict.value.record_count = 0

\* The check returned for the file without any line.
C19_Witness ==
  /\ verdict.done /\ candidate.fault = "none" /\ candidate.rows = <<>>
  /\ ~verdict.value.is_valid

\* The key of a row, as the tuple of its four fields.
CompositeKey(row) == <<row[1], row[2], row[3], row[5]>>

\* Row i of the file under check was flagged "Duplicate record".
FlaggedDuplicate(i) ==
  \E k \in DOMAIN verdict.value.errors :
    /\ verdict.value.errors[k].row = i
    /\ \E n \in DOMAIN verdict.value.errors[k].msgs :
         verdict.value.errors[k].msgs[n] = <<"Duplicate record">>

\* C20: a 9-field row is flagged "Duplicate record" exactly when an earlier 9-field row
\* of the file has the same patient, trial, drug and start date, field by field.
C20_DuplicateByKey ==
  (verdict.done /\ candidate.fault = "none" /\ Len(candidate.rows) >= 1
   /\ candidate.rows[1] = ExpectedFields)
  => \A i \in 2..Len(candidate.rows) :
       Len(candidate.rows[i]) = FieldCount =>
         (FlaggedDuplicate(i) <=>
            \E j \in 2..(i - 1) :
              /\ Len(candidate.rows[j]) = FieldCount
              /\ CompositeKey(candidate.rows[j]) = CompositeKey(candidate.rows[i]))

\* Row i of the file under check is a data row of 9 fields.
NineFields(i) == i \in 2..Len(candidate.rows) /\ Len(candidate.rows[i]) = FieldCount

\* The file under check was scanned to its end: no read fault, and the header is right.
Scanned ==
  /\ verdict.done /\ candidate.fault = "none"
  /\ Len(candidate.rows) >= 1 /\ candidate.rows[1] = ExpectedFields

\* The violation entries the verdict holds for row i.
EntriesOf(i) == {k \in DOMAIN verdict.value.errors : verdict.value.errors[k].row = i}

\* C21: a data row that has not 9 fields gets exactly one violation entry, with the
\* field-count message alone, is not counted as a valid record, and adds no key to the
\* seen-set: a row is flagged as a duplicate only if an earlier 9-field row gave its key.
C21_FieldCountRowSkipped ==
  Scanned =>
    /\ \A i \in 2..Len(candidate.rows) :
         ~NineFields(i) =>
           /\ Cardinality(EntriesOf(i)) = 1
           /\ \A k \in EntriesOf(i) :
                /\ Len(verdict.value.errors[k].msgs) = 1
                /\ verdict.value.errors[k].msgs[1][1] = "Expected 9 fields, got"
                /\ verdict.value.errors[k].msgs[1][2] = Len(candidate.rows[i])
    /\ verdict.value.record_count <= Cardinality({i \in 2..Len(candidate.rows) : NineFields(i)})
    /\ \A j \in 2..Len(candidate.rows) :
         FlaggedDuplicate(j) =>
           \E i \in 2..(j - 1) :
             NineFields(i) /\ RecordKey(candidate.rows[i]) = RecordKey(candidate.rows[j])

\* A row of 8 fields was followed by the row it is the beginning of, which was accepted.
C21_Witness ==
  /\ Scanned /\ Len(candidate.rows) = 3
  /\ candidate.rows[2] = RowShort /\ candidate.rows[3] = RowA
  /\ Len(verdict.value.errors) = 1 /\ verdict.value.record_count = 1

\* s is a base-10 integer: an optional sign and one or more digits.
DecimalInteger(s) ==
  LET body == IF Len(s) > 0 /\ s[1] \in {"+", "-"} THEN Tail(s) ELSE s
  IN  Len(body) > 0 /\ \A k \in 1..Len(body) : body[k] \in Digits

\* s is a base-10 integer greater than 0.
PositiveInteger(s) ==
  /\ DecimalInteger(s) /\ s[1] # "-"
  /\ DigitsValue(IF s[1] = "+" THEN Tail(s) ELSE s, 0) > 0

\* s is a calendar date written YYYY-MM-DD.
IsoDate(s) ==
  /\ Len(s) = 10 /\ s[5] = "-" /\ s[8] = "-"
  /\ \A k \in {1, 2, 3, 4, 6, 7, 9, 10} : s[k] \in Digits
  /\ LET y == DigitsValue(SubSeq(s, 1, 4), 0)
         m == DigitsValue(SubSeq(s, 6, 7), 0)
         d == DigitsValue(SubSeq(s, 9, 10), 0)
     IN  y >= 1 /\ m \in 1..12 /\ d \in 1..DaysInMonth(y, m)

\* The date written YYYY-MM-DD, as year, month and day.
IsoValue(s) ==
  [y |-> DigitsValue(SubSeq(s, 1, 4), 0), m |-> DigitsValue(SubSeq(s, 6, 7), 0),
   d |-> DigitsValue(SubSeq(s, 9, 10), 0)]

\* Row i of the file under check meets every rule of a valid record.
MeetsRecordRules(i) ==
  LET row == candidate.rows[i]
  IN  /\ NineFields(i)
      /\ \A k \in 1..FieldCount : row[k] # <<>>
      /\ PositiveInteger(row[4])
      /\ IsoDate(row[5]) /\ IsoDate(row[6])
      /\ ~DateLess(IsoValue(row[6]), IsoValue(row[5]))
      /\ row[7] \in ValidOutcomes
      /\ ~\E j \in 2..(i - 1) :
            NineFields(j) /\ CompositeKey(candidate.rows[j]) = CompositeKey(row)

\* C22: for a file with the correct header, the count of valid records is the number
\* of 9-field rows whose fields are all non-empty, whose dosage is a base-10 integer
\* greater than 0, whose dates are written YYYY-MM-DD with the end not before the
\* start, whose outcome is one of the three values, and whose key no earlier row had.
C22_ValidRecordCount ==
  Scanned =>
    verdict.value.record_count
      = Cardinality({i \in 2..Len(candidate.rows) : MeetsRecordRules(i)})

\* The violation messages the verdict holds for row i, one after the other.
MessagesOf(i) ==
  IF EntriesOf(i) = {} THEN <<>>
  ELSE verdict.value.errors[CHOOSE k \in EntriesOf(i) : TRUE].msgs

\* C30: every 9-field row notes its key, also a row with other violations: a 9-field
\* row that follows a 9-field row of the same patient, trial, drug and start date is
\* flagged "Duplicate record", and the message comes after the row's other messages.
C30_SeenSetAlwaysUpdated ==
  Scanned =>
    \A i, j \in 2..Len(candidate.rows) :
      (/\ i < j /\ NineFields(i) /\ NineFields(j)
       /\ CompositeKey(candidate.rows[i]) = CompositeKey(candidate.rows[j]))
      => /\ FlaggedDuplicate(j)
         /\ MessagesOf(j) = RecordErrors(candidate.rows[j], {}) \o << <<"Duplicate record">> >>

\* A row with a dosage of 0 was followed by the same row: the second has the dosage
\* message and the duplicate message.
C30_Witness ==
  /\ Scanned /\ Len(candidate.rows) = 3
  /\ candidate.rows[2] = RowZeroDosage /\ candidate.rows[3] = RowZeroDosage
  /\ Len(MessagesOf(2)) = 1 /\ Len(MessagesOf(3)) = 2

\* C23: the summary process_selected_files builds for a file it rejects for its
\* content with n violations is made of the first min(n, 3) violations in their
\* order, and has the tail " ... and k more" with k = n - 3 exactly when n > 3.
C23_SummaryOfFirstThree ==
  error_summary.done =>
    LET errors == verdict.value.errors
        n == Len(errors)
        shown == error_summary.value.shown
    IN /\ n >= 1
       /\ Len(shown) = Min({n, 3})
       /\ \A i \in 1..Len(shown) : shown[i] = errors[i]
       /\ (n > 3) => error_summary.value.more = n - 3
       /\ (n <= 3) => error_summary.value.more = 0

C23_Witness ==
  /\ error_summary.done
  /\ Len(verdict.value.errors) = 5
  /\ verdict.value.errors[1] # verdict.value.errors[4]
  /\ Len(error_summary.value.shown) = 3
  /\ error_summary.value.more = 2

\* The name without its extension: what stands before its last dot.
Stem(filename) ==
  LET dots == {i \in 1..Len(filename) : filename[i] = "."}
  IN IF dots = {} THEN filename ELSE SubSeq(filename, 1, Max(dots) - 1)

\* C24: the archive name computed for a name the matcher accepted is the name without
\* its extension, then "_" and the date of processing, then ".CSV".
C24_ArchiveName ==
  (archive_filename # <<>>) =>
    \E current_date \in Dates :
      archive_filename = Stem(candidate) \o <<"_">> \o current_date \o <<".", "C", "S", "V">>

\* The calls of `api` that fail: an exception, a timeout, a connection error or a
\* response that is not a list of GUIDs.
Failing(api) == {k \in DOMAIN api : api[k] # "ok"}

\* C25: _generate_guid returns the first GUID of the first successful response and
\* calls the API no more: one call when the first attempt succeeds, two calls when the
\* first times out and the second succeeds.
C25_FirstSuccessReturned ==
  verdict.done =>
    /\ (candidate[1] = "ok")
         => /\ verdict.value.raised = "none"
            /\ verdict.value.guid = [origin |-> "api", call |-> 1]
            /\ verdict.value.calls = 1
    /\ (Len(candidate) >= 2 /\ candidate[1] = "timeout" /\ candidate[2] = "ok")
         => /\ verdict.value.raised = "none"
            /\ verdict.value.guid = [origin |-> "api", call |-> 2]
            /\ verdict.value.calls = 2

\* C26: when every attempt fails, _generate_guid does not raise and returns a UUID
\* made locally, after it called the API at least once.
C26_FallbackWhenAllFail ==
  (verdict.done /\ Failing(candidate) = DOMAIN candidate) =>
    /\ verdict.value.raised = "none"
    /\ verdict.value.guid.origin = "local"
    /\ verdict.value.calls >= 1

\* C27: whatever the API answers, _generate_guid ends after at most a fixed number of
\* attempts by returning a GUID of the API or a local one.
C27_GuidTerminates ==
  verdict.done =>
    /\ verdict.value.raised = "none"
    /\ verdict.value.guid.origin \in {"api", "local"}
    /\ verdict.value.calls <= MaxCalls

\* C28: every call of the Error Reporter writes an entry whose Source field is "API"
\* exactly when its identifier came from the API and "Local Fallback" exactly when it
\* was made locally.
C28_SourceTellsOrigin ==
  [][(/\ mode = "process" /\ pc \in {"log_name", "log_content", "log_arch"}
      /\ ~AbortStep)
     => /\ Len(error_log') = Len(error_log) + 1
        /\ LET entry == error_log'[Len(error_log')]
           IN /\ (entry.source = "API") <=> (entry.guid.origin = "api")
              /\ (entry.source = "Local Fallback") <=> (entry.guid.origin = "local")]_vars

\* C29: at most one worker thread runs at a time, and is_processing is true as long
\* as one runs, whatever messages it has put on the status queue.
C29_SingleWorker ==
  /\ Cardinality(Running) <= 1
  /\ (Running # {}) => is_processing

\* The messages of row i that come from its date check.
DateMessages(i) ==
  SelectSeq(MessagesOf(i),
            LAMBDA m : m[1] \in {"Invalid date format (expected YYYY-MM-DD)",
                                 "EndDate before StartDate"})

\* The place of a calendar day in the order of days.
DayNumber(date) == (date.y * 12 + date.m) * 31 + date.d

\* C31: for a 9-field row the date check gives at most one message: when the start
\* date or the end date is not read as a date, one "Invalid date format" and nothing
\* about their order; when both are read, "EndDate before StartDate" exactly when the
\* end date is earlier than the start date (equal dates are accepted).
C31_OneDateMessage ==
  Scanned =>
    \A i \in 2..Len(candidate.rows) :
      NineFields(i) =>
        LET start_dt == ParseDate(candidate.rows[i][5])
            end_dt   == ParseDate(candidate.rows[i][6])
        IN /\ Len(DateMessages(i)) <= 1
           /\ (~start_dt.ok \/ ~end_dt.ok)
                => DateMessages(i) = << <<"Invalid date format (expected YYYY-MM-DD)">> >>
           /\ (start_dt.ok /\ end_dt.ok)
                => IF DayNumber(end_dt) < DayNumber(start_dt)
                   THEN DateMessages(i) = << <<"EndDate before StartDate",
                                               candidate.rows[i][6], candidate.rows[i][5]>> >>
                   ELSE DateMessages(i) = <<>>

\* A record whose end date is before its start date, and whose only fault that is.
C31_Witness ==
  /\ Scanned /\ Len(candidate.rows) = 2
  /\ candidate.rows[2][5] = <<"2", "0", "2", "4", "-", "0", "1", "-", "1", "0">>
  /\ candidate.rows[2][6] = <<"2", "0", "2", "4", "-", "0", "1", "-", "0", "1">>
  /\ Len(MessagesOf(2)) = 1
  /\ MessagesOf(2)[1][1] = "EndDate before StartDate"

\* The check a message comes from, by its place in the order of the checks.
MessageRank(m) ==
  CASE m[1] = "Missing required fields" -> 1
    [] m[1] \in {"Non-numeric dosage", "Dosage must be positive integer, got"} -> 2
    [] m[1] \in {"Invalid date format (expected YYYY-MM-DD)", "EndDate before StartDate"} -> 3
    [] m[1] = "Invalid outcome" -> 4
    [] m[1] = "Duplicate record" -> 5

\* Row i has a message of the check of that rank.
HasRank(i, r) == \E k \in DOMAIN MessagesOf(i) : MessageRank(MessagesOf(i)[k]) = r

\* C32: the violation entry of a 9-field row is one entry that holds the message of
\* every check that fails for the row, in the order missing fields, dosage, date,
\* outcome, duplicate; "Missing required fields" comes with the other messages of the
\* row, not in their place.
C32_MessagesInFixedOrder ==
  Scanned =>
    \A i \in 2..Len(candidate.rows) :
      NineFields(i) =>
        LET row      == candidate.rows[i]
            msgs     == MessagesOf(i)
            dosage   == ParseInt(row[4])
            start_dt == ParseDate(row[5])
            end_dt   == ParseDate(row[6])
        IN /\ Cardinality(EntriesOf(i)) = IF msgs = <<>> THEN 0 ELSE 1
           /\ \A k \in 1..(Len(msgs) - 1) : MessageRank(msgs[k]) < MessageRank(msgs[k + 1])
           /\ HasRank(i, 1) <=> (\E f \in 1..FieldCount : row[f] = <<>>)
           /\ HasRank(i, 2) <=> ~(dosage.ok /\ dosage.val > 0)
           /\ HasRank(i, 3) <=> ~(/\ start_dt.ok /\ end_dt.ok
                                  /\ DayNumber(end_dt) >= DayNumber(start_dt))
           /\ HasRank(i, 4) <=> (row[7] \notin ValidOutcomes)
           /\ HasRank(i, 5) <=> (\E j \in 2..(i - 1) :
                                   NineFields(j) /\ RecordKey(candidate.rows[j]) = RecordKey(row))

\* The row P1,T1,D1,-5,2024-01-10,2024-01-01,Maybe,None,A with its three messages, and
\* the same row again, which is a duplicate as well.
C32_Witness ==
  /\ Scanned /\ Len(candidate.rows) = 3
  /\ candidate.rows[2] = << <<"P", "1">>, <<"T", "1">>, <<"D", "1">>, <<"-", "5">>, <<"2", "0", "2", "4", "-", "0", "1", "-", "1", "0">>, <<"2", "0", "2", "4", "-", "0", "1", "-", "0", "1">>, <<"M", "a", "y", "b", "e">>, <<"N", "o", "n", "e">>, <<"A">> >>
  /\ Len(MessagesOf(2)) = 3
  /\ MessagesOf(2)[1][1] = "Dosage must be positive integer, got"
  /\ MessagesOf(2)[2][1] = "EndDate before StartDate"
  /\ MessagesOf(2)[3][1] = "Invalid outcome"
  /\ Len(MessagesOf(3)) = 4

\* Row i has a problem: it has not 9 fields, or one of the checks of a record fails
\* for it, or an earlier 9-field row has its key.
HasProblem(i) ==
  \/ ~NineFields(i)
  \/ RecordErrors(candidate.rows[i], {}) # <<>>
  \/ \E j \in 2..(i - 1) :
       NineFields(j) /\ RecordKey(candidate.rows[j]) = RecordKey(candidate.rows[i])

\* C33: every data row with a problem has exactly one entry in the violation list,
\* under its position in the file (the header is row 1); the entries stand in
\* increasing order of their rows and no two are of the same row.
C33_OneEntryPerBadRow ==
  Scanned =>
    LET errors == verdict.value.errors
    IN /\ \A k \in DOMAIN errors : errors[k].row \in 2..Len(candidate.rows)
       /\ \A k \in 1..(Len(errors) - 1) : errors[k].row < errors[k + 1].row
       /\ \A i \in 2..Len(candidate.rows) :
            Cardinality(EntriesOf(i)) = IF HasProblem(i) THEN 1 ELSE 0

\* A good row and then a bad one: the one entry is that of row 3.
C33_Witness ==
  /\ Scanned /\ Len(candidate.rows) = 3
  /\ candidate.rows[2] = RowA /\ candidate.rows[3] = RowZeroDosage
  /\ Len(verdict.value.errors) = 1
  /\ verdict.value.errors[1].row = 3

\* C35: for a file with the correct header that is read to its end, the count of valid
\* records and the number of entries of the violation list add up to the number of
\* data rows.
C35_EveryRowAccounted ==
  Scanned =>
    verdict.value.record_count + Len(verdict.value.errors) = Len(candidate.rows) - 1

\* A file of one good and one short row: one record and one entry.
C35_Witness ==
  /\ Scanned /\ Len(candidate.rows) = 3
  /\ candidate.rows[2] = RowA /\ candidate.rows[3] = RowShort
  /\ verdict.value.record_count = 1
  /\ Len(verdict.value.errors) = 1

\* C34: duplicates are looked for within one file only: a file of an acceptable name
\* whose one record is good is found valid, by a processing run and by a dry run,
\* whatever files with the same record were validated or archived before.
C34_DuplicatesPerFile ==
  [][/\ (/\ mode = "process" /\ pc = "route" /\ ~AbortStep
         /\ ValidateFilenamePattern(files[idx])
         /\ download_dir[files[idx]].data = GoodData)
        => pc' \in {"save", "log_arch"}
     /\ (/\ mode = "validate" /\ pc = "check" /\ ~AbortStep
         /\ ValidateFilenamePattern(files[idx])
         /\ download_dir[TempPath(files[idx])].data = GoodData)
        => counts'.valid_count = counts.valid_count + 1]_vars

\* A dry run has found a file valid whose record is the record of an archived file.
C34_Witness ==
  /\ mode = "validate" /\ pc = "loop" /\ idx = 2
  /\ ValidateFilenamePattern(files[1])
  /\ counts.valid_count = 1
  /\ \E p \in DOMAIN archive_dir : archive_dir[p].data = GoodData

\* The files a processing run has counted so far, archived or rejected.
Counted(c) == c.processed_count + c.error_count

\* C36: a processing run starts counting at zero, and whenever it is back at the top
\* of its loop the file it has just left was counted exactly once if it was not
\* skipped, and not at all if it was skipped, whichever step of the file failed.
C36_CountedOnce ==
  /\ (mode = "process" /\ pc = "loop" /\ idx = 1) => Counted(counts) = 0
  /\ (mode = "process" /\ pc = "loop" /\ idx > 1)
       => /\ h.name = files[idx - 1]
          /\ Counted(counts) = Counted(h.before) + (IF h.skipped THEN 0 ELSE 1)

\* A run is at its summary after one archived file and one file whose move to the
\* error directory succeeded and whose error logging step failed.
C36_Witness ==
  /\ mode = "process" /\ pc = "loop" /\ idx = 3 /\ Len(files) = 2
  /\ counts.processed_count = 1 /\ counts.error_count = 1
  /\ h.rejected = "name" /\ ~h.skipped

\* C37: a move into the archive or into the error directory never lands on a file
\* that is already there: every such move adds one file to the directory.
C37_MoveNeverReplaces ==
  [][/\ (pc = "route" /\ pc' = "save")
        => Cardinality(DOMAIN archive_dir') = Cardinality(DOMAIN archive_dir) + 1
     /\ (pc = "route" /\ pc' \in {"log_name", "log_content"})
        => Cardinality(DOMAIN error_dir') = Cardinality(DOMAIN error_dir) + 1]_vars

\* C38: after a marking by a validator instance, whether or not the write of the
\* sidecar file succeeded, the set the instance holds in memory is the set of names
\* the sidecar file stores.
C38_MemoryIsSidecar ==
  (marked.inst # "none" /\ validators[marked.inst].live)
    => validators[marked.inst].processed_files = LoadProcessedFiles

\* C39: when disconnect() has returned the processor is not connected, whether or not
\* the QUIT command was answered, and a get_file_list() that follows returns the empty
\* list without a command being sent to the server.
C39_DisconnectedAfterDisconnect ==
  [][/\ verdict'.value.op = "disconnect" => ~processor'.connected
     /\ (verdict.value.op = "disconnect" /\ verdict'.value.op = "get_file_list")
          => /\ verdict'.value.returned = <<>>
             /\ ~verdict'.value.contacted]_vars
====
